---------------------------- MODULE Spec2Model ----------------------------
(***************************************************************************)
(* A model of the intro-to-eeg course repository: the chapter notebooks    *)
(* (flat scripts of library calls, run cell by cell), the deploy-book      *)
(* workflow (.github/workflows/deploy.yml) and the Makefile.               *)
(*                                                                         *)
(* The notebooks are modelled by a small interpreter over statement        *)
(* tables that transcribe the code cells of each chapter: one record per   *)
(* Python statement, with the source line it starts on.  Control flow is   *)
(* explicit, as in Python's own byte code: a `for` header carries the      *)
(* index of the statement after its body, the last statement of a loop     *)
(* body jumps back to the header, an `if` carries the index of its else    *)
(* branch.  Indices are positions inside one cell.                         *)
(***************************************************************************)
EXTENDS Integers, Sequences, FiniteSets, TLC

VARIABLES
    chapter,    \* the chapter notebook this run executes
    nRaw,       \* number of raw files get_erpcore returns (an input)
    nLog,       \* number of log files get_erpcore returns (an input)
    cell,       \* index of the code cell being executed
    pc,         \* index of the next statement inside the cell
    it,         \* position of the active for loop in its iterable (0: none)
    status,     \* "running", "done" or "error"
    count,      \* <<cell, pc>> -> how often that statement was started
    env,        \* the notebook-local variables
    trace,      \* processing stages applied to the current raw signal
    aborted,    \* cells that were left by an exception, with the statement
    \* two chapter runs side by side on one file system
    shChapter,  \* run -> the chapter it executes
    shPos,      \* run -> index of its next file access
    shLocals,   \* namespace -> the notebook-local variables kept there
    fs,         \* file -> the run that wrote it last (0: absent)
    foreign,    \* accesses of a run to a file another run wrote
    \* the deploy-book workflow
    main,       \* number of the head commit of branch main
    nRuns,      \* number of workflow runs triggered so far
    rEvent,     \* run -> "push" or "workflow_dispatch" ("none": not triggered)
    rSha,       \* run -> the commit it was triggered on
    rStatus,    \* run -> "none", "pending", "in_progress", "success",
                \*        "failure" or "cancelled"
    rStep,      \* run -> index of its current step
    rCmd,       \* run -> index of the next command of that step
    rLog,       \* run -> the commands it ran, with their outcome
    pagesSha,   \* the commit whose HTML GitHub Pages serves (0: none)
    \* a run of `make`
    mkFile,     \* which version of the Makefile is run
    mkGit,      \* whether `command -v git` finds git
    mkScripts,  \* the number of scripts py/*.py
    mkDir,      \* whether the directory ipynb/ exists
    mkPy,       \* the scripts whose notebook lies in py/
    mkIpynb,    \* script -> its notebook in ipynb/: "absent", "committed"
                \*           (content of HEAD) or "converted" (fresh)
    mkTracked,  \* the scripts whose notebook in ipynb/ is tracked by git
    mkBook,     \* <<>>, or <<the notebooks the book was built from>>
    mkPc,       \* index of the next line of the recipe
    mkStatus,   \* "idle", "running", "ok" or "failed"
    mkLog,      \* the recipe lines run so far
    \* the event array of the epoching chapter
    evIn,       \* the event array before the cell: rows <<sample, duration,
                \* value>>
    events,     \* the variable events
    evPc,       \* index of the next statement of the cell
    \* epochs and averages of one recording
    dChapter,   \* the chapter whose epoching statements are run
    dTrials,    \* the events of the recording with the signal around each
    dPc,        \* index of the next of these statements
    epochs,     \* the variable epochs: rows [idx, value, data]
    dPrev,      \* the value of epochs before its last assignment
    evokeds,    \* the average of all epochs
    evokeds_face, \* the average of the face epochs
    evokeds_car,  \* the average of the car epochs
    evokeds_diff, \* the difference wave
    \* the pipeline loop on the data of several participants
    gTrials,    \* participant -> the events of its recording with their signal
    gPc,        \* the participant the loop is at; then the cells after it
    gEpochs,    \* participant -> its epochs after rejection
    gFace,      \* the list evokeds_face
    gCar,       \* the list evokeds_car
    gDiff,      \* the list evokeds_diff
    grand_evoked_face,  \* the grand averages
    grand_evoked_car,
    grand_evoked_diff,
    \* a session of preprocessing statements
    sChapter,   \* the chapter the session runs
    session,    \* its variables: the channels read from the file, raw,
                \* raw_copy, ica and eog_indices
    sPc,        \* index of the next statement
    sStatus,    \* "running", "done", or "error" after an exception
    sRuns       \* executions of the cell with the channel set-up so far

nbVars == <<chapter, nRaw, nLog, cell, pc, it, status, count, env, trace,
            aborted>>

shVars == <<shChapter, shPos, shLocals, fs, foreign>>

dpVars == <<main, nRuns, rEvent, rSha, rStatus, rStep, rCmd, rLog, pagesSha>>

mkVars == <<mkFile, mkGit, mkScripts, mkDir, mkPy, mkIpynb, mkTracked, mkBook,
            mkPc, mkStatus, mkLog>>

evVars == <<evIn, events, evPc>>

epVars == <<dChapter, dTrials, dPc, epochs, dPrev, evokeds, evokeds_face, evokeds_car, evokeds_diff>>

grVars == <<gTrials, gPc, gEpochs, gFace, gCar, gDiff, grand_evoked_face, grand_evoked_car, grand_evoked_diff>>

ssVars == <<sChapter, session, sPc, sStatus, sRuns>>

vars == <<nbVars, shVars, dpVars, mkVars, evVars, epVars, grVars, ssVars>>

(* What a step of one part of the model leaves alone: the other parts.     *)
notNb == <<shVars, dpVars, mkVars, evVars, epVars, grVars, ssVars>>

notSh == <<nbVars, dpVars, mkVars, evVars, epVars, grVars, ssVars>>

notDp == <<nbVars, shVars, mkVars, evVars, epVars, grVars, ssVars>>

notMk == <<nbVars, shVars, dpVars, evVars, epVars, grVars, ssVars>>

notEv == <<nbVars, shVars, dpVars, mkVars, epVars, grVars, ssVars>>

notEp == <<nbVars, shVars, dpVars, mkVars, evVars, grVars, ssVars>>

notGr == <<nbVars, shVars, dpVars, mkVars, evVars, epVars, ssVars>>

notSs == <<nbVars, shVars, dpVars, mkVars, evVars, epVars, grVars>>

(***************************************************************************)
(* Statement tables.                                                       *)
(***************************************************************************)
St(l, o) == [kind |-> "stmt", line |-> l, op |-> o, tgt |-> 0]

StJ(l, o, t) == [kind |-> "stmt", line |-> l, op |-> o, tgt |-> t]

For(l, iterable, exit) == [kind |-> "for", line |-> l, op |-> iterable, tgt |-> exit]

If(l, cond, else) == [kind |-> "if", line |-> l, op |-> cond, tgt |-> else]

Cell(id, tag, body) == [id |-> id, tag |-> tag, body |-> body]

(* Cells that hold only comments (the `# %pip install ...` cells) execute   *)
(* nothing and are left out; a `def` is one statement, its body runs as     *)
(* part of the call; an R cell (%%R) is one statement.                      *)

(* python: the code cells of src/ipynb/1-python.ipynb, lines 47-785. *)
python ==
  <<
    Cell("14dd6768", "",
         << St(47, "expr") >>),
    Cell("656f442f", "",
         << St(57, "expr") >>),
    Cell("fa9418c1", "",
         << St(67, "expr") >>),
    Cell("eafd151e", "",
         << St(77, "expr") >>),
    Cell("c7df741e", "",
         << St(87, "expr") >>),
    Cell("d34900b9", "",
         << St(97, "expr") >>),
    Cell("b99b7707", "",
         << St(107, "expr") >>),
    Cell("659032b4", "",
         << St(152, "assign"), St(153, "expr") >>),
    Cell("e50950d6", "",
         << St(163, "assign"), St(164, "assign"), St(165, "assign"),
            St(166, "expr") >>),
    Cell("22d1c966", "",
         << St(176, "assign"), St(177, "assign"), St(178, "expr") >>),
    Cell("93c71a7d", "",
         << St(188, "assign"), St(189, "assign"), St(190, "assign"),
            St(191, "expr") >>),
    Cell("0e289597", "",
         << St(234, "assign_other"), St(235, "expr") >>),
    Cell("ca9cbb1d", "",
         << St(256, "assign_other"), St(257, "expr") >>),
    Cell("a3885e92", "",
         << St(278, "assign_other"), St(279, "expr") >>),
    Cell("98150141", "",
         << St(300, "assign_other"), St(301, "expr") >>),
    Cell("012cd2f5", "",
         << St(322, "assign_other"), St(323, "expr") >>),
    Cell("79a431e8", "",
         << St(354, "assign_list"), St(355, "expr") >>),
    Cell("e45da5a5", "",
         << St(376, "expr") >>),
    Cell("a005e6e6", "",
         << St(398, "setitem"), St(399, "expr") >>),
    Cell("3777af67", "",
         << St(421, "assign_tuple"), St(422, "expr") >>),
    Cell("cece9a6f", "",
         << St(434, "expr") >>),
    Cell("42c72cb5", "raises-exception",
         << St(448, "setitem") >>),
    Cell("572940b0", "",
         << St(470, "assign_other"), St(471, "expr") >>),
    Cell("c573239d", "",
         << St(481, "expr") >>),
    Cell("a59b3bbb", "",
         << St(504, "assign"), For(505, "names", 4), StJ(506, "expr", 2) >>),
    Cell("a35e6e1c", "",
         << St(530, "assign"), St(531, "assign"), For(532, "names", 5),
            StJ(533, "expr", 3), St(534, "expr") >>),
    Cell("7cd30fc4", "",
         << St(559, "assign"), St(560, "expr") >>),
    Cell("469be140", "",
         << St(581, "expr") >>),
    Cell("24b18888", "",
         << St(604, "def"), St(609, "expr") >>),
    Cell("41328a31", "",
         << St(633, "def"), St(638, "expr") >>),
    Cell("a01b8490", "",
         << St(684, "import"), St(686, "assign"), St(687, "expr") >>),
    Cell("038fc3e0", "",
         << St(709, "import"), St(711, "expr") >>),
    Cell("296e6fc2", "",
         << St(732, "import"), St(734, "expr") >>),
    Cell("88e196e7", "",
         << St(754, "assign"), St(755, "expr") >>),
    Cell("493b9229", "",
         << St(765, "expr") >>),
    Cell("253f30ba", "",
         << St(775, "expr") >>),
    Cell("f748b888", "",
         << St(785, "expr") >>)
  >>

(* python_old: the code cells of src/unnamed/part_007, lines 49-717. *)
python_old ==
  <<
    Cell("a76331ba", "",
         << St(49, "expr") >>),
    Cell("66edcc33", "",
         << St(59, "expr") >>),
    Cell("bfb2b76d", "",
         << St(103, "assign"), St(104, "expr") >>),
    Cell("33bd62d5", "",
         << St(114, "assign"), St(115, "assign"), St(116, "assign"),
            St(117, "expr") >>),
    Cell("e66a2906", "",
         << St(152, "assign_other"), St(153, "expr") >>),
    Cell("281a616b", "",
         << St(173, "assign_other"), St(174, "expr") >>),
    Cell("75b32d5f", "",
         << St(194, "assign_other"), St(195, "expr") >>),
    Cell("5f96ca6e", "",
         << St(215, "assign_other"), St(216, "expr") >>),
    Cell("186c3072", "",
         << St(236, "assign_other"), St(237, "expr") >>),
    Cell("59baf49e", "",
         << St(259, "assign_list"), St(260, "expr") >>),
    Cell("8f88d4f9", "",
         << St(281, "expr") >>),
    Cell("4b4a6f78", "",
         << St(302, "setitem"), St(303, "expr") >>),
    Cell("c039713e", "",
         << St(324, "assign_tuple"), St(325, "expr") >>),
    Cell("ff77e0d0", "",
         << St(337, "expr") >>),
    Cell("b4249610", "raises-exception",
         << St(351, "setitem") >>),
    Cell("be717fed", "",
         << St(372, "assign_other"), St(373, "expr") >>),
    Cell("f194824e", "",
         << St(383, "expr") >>),
    Cell("33f3cd83", "",
         << St(406, "assign"), For(407, "names", 4), StJ(408, "expr", 2) >>),
    Cell("97ecb035", "",
         << St(431, "assign"), St(432, "assign"), For(433, "names", 5),
            StJ(434, "expr", 3), St(435, "expr") >>),
    Cell("2d5387f5", "",
         << St(460, "assign"), St(461, "expr") >>),
    Cell("7fbc2123", "",
         << St(482, "expr") >>),
    Cell("671ee912", "",
         << St(504, "def"), St(509, "expr") >>),
    Cell("c9069577", "",
         << St(534, "def"), St(539, "expr") >>),
    Cell("0a47a927", "",
         << St(558, "assign"), St(559, "expr") >>),
    Cell("74cab6a3", "",
         << St(605, "import"), St(607, "assign"), St(608, "expr") >>),
    Cell("fcf09f37", "",
         << St(630, "import"), St(632, "expr") >>),
    Cell("589f7ba1", "",
         << St(652, "import"), St(654, "expr") >>),
    Cell("064b5936", "",
         << St(676, "assign"), St(677, "expr") >>),
    Cell("f0f79850", "",
         << St(697, "expr") >>),
    Cell("6b4a8d45", "",
         << St(707, "expr") >>),
    Cell("1fb19d61", "",
         << St(717, "expr") >>)
  >>

(* preprocessing: the code cells of src/unnamed/part_002, lines 61-452. *)
preprocessing ==
  <<
    Cell("4225dd75", "",
         << St(61, "import"), St(62, "import"), St(63, "import"),
            St(64, "import") >>),
    Cell("a42887a3", "",
         << St(97, "get_erpcore"), St(98, "expr") >>),
    Cell("702ffad3", "",
         << St(121, "raw_file_0"), St(122, "read_raw"), St(123, "expr") >>),
    Cell("0924e71b", "",
         << St(143, "expr") >>),
    Cell("1061f7da", "",
         << St(163, "expr") >>),
    Cell("43e8044b", "",
         << St(197, "plot") >>),
    Cell("24023da0", "",
         << St(222, "set_bipolar_reference"),
            St(224, "set_bipolar_reference"),
            St(226, "set_channel_types"), St(227, "drop_channels") >>),
    Cell("7a57101f", "",
         << St(248, "set_montage"), St(249, "plot") >>),
    Cell("2bae8f8b", "",
         << St(279, "filter"), St(280, "plot") >>),
    Cell("f8aab2c7", "",
         << St(300, "filter"), St(301, "plot") >>),
    Cell("73a4cf30", "",
         << St(344, "copy_filter"), St(345, "ICA"), St(346, "ica_fit"),
            St(347, "plot") >>),
    Cell("1f478a2e", "",
         << St(367, "find_bads_eog"), St(369, "ica_exclude"),
            St(370, "plot") >>),
    Cell("269e8d45", "",
         << St(390, "ica_apply"), St(391, "plot") >>),
    Cell("8db8df49", "",
         << St(416, "set_eeg_reference"), St(417, "plot") >>),
    Cell("ece9f9a0", "skip-execution",
         << St(452, "expr") >>)
  >>

(* preprocessing_old: the code cells of src/unnamed/part_004, lines 60-375. *)
preprocessing_old ==
  <<
    Cell("45d193e7", "",
         << St(60, "import"), St(61, "import"), St(62, "import"),
            St(63, "import"), St(64, "import") >>),
    Cell("f1f825db", "",
         << St(93, "get_erpcore_default"), St(94, "expr") >>),
    Cell("5ace7896", "",
         << St(117, "raw_file_0"), St(118, "read_raw"), St(119, "expr") >>),
    Cell("a4281731", "",
         << St(141, "expr") >>),
    Cell("2c82de62", "",
         << St(168, "plot"), St(169, "plot") >>),
    Cell("c92555db", "",
         << St(189, "set_bipolar_reference"),
            St(191, "set_bipolar_reference"),
            St(193, "set_channel_types"), St(194, "drop_channels") >>),
    Cell("eedebfe9", "",
         << St(204, "set_montage") >>),
    Cell("0633ab47", "",
         << St(234, "filter"), St(235, "plot") >>),
    Cell("3d62fd54", "",
         << St(258, "filter"), St(259, "plot") >>),
    Cell("1fa9c6d0", "",
         << St(292, "copy_filter"), St(293, "ICA"), St(294, "ica_fit"),
            St(295, "plot") >>),
    Cell("606707c0", "",
         << St(305, "find_bads_eog"), St(307, "ica_exclude"),
            St(308, "plot") >>),
    Cell("4bf745de", "",
         << St(318, "ica_apply"), St(319, "plot") >>),
    Cell("1d0eab0b", "",
         << St(339, "set_eeg_reference"), St(340, "plot") >>),
    Cell("3b1c7c91", "skip-execution",
         << St(375, "expr") >>)
  >>

(* epoching: the code cells of src/ipynb/3-epoching.ipynb, lines 467-946. *)
epoching ==
  <<
    Cell("ed8002c4", "",
         << St(467, "import"), St(468, "import"), St(470, "import"),
            St(471, "import"), St(472, "import") >>),
    Cell("9f1f7b74", "",
         << St(500, "get_erpcore"), St(501, "raw_file_0"),
            St(502, "log_file_0"), St(505, "read_raw"),
            St(506, "set_bipolar_reference"),
            St(508, "set_bipolar_reference"),
            St(510, "set_channel_types"), St(511, "drop_channels"),
            St(512, "set_montage"), St(513, "filter"),
            St(514, "copy_filter"), St(515, "ICA"), St(516, "ica_fit"),
            St(517, "find_bads_eog"), St(519, "ica_exclude"),
            St(520, "ica_apply"), St(521, "set_eeg_reference") >>),
    Cell("eab71e4d", "",
         << St(541, "expr") >>),
    Cell("d7161c6f", "",
         << St(564, "events_from_annotations") >>),
    Cell("3f8890ca", "",
         << St(587, "expr") >>),
    Cell("3af1cc29", "",
         << St(601, "expr") >>),
    Cell("b583e9ff", "",
         << St(628, "cat_log") >>),
    Cell("7e9ac552", "",
         << St(648, "log_file_0"), St(649, "read_csv"), St(650, "expr") >>),
    Cell("b6f272d2", "",
         << St(671, "events_from_log"), St(672, "expr") >>),
    Cell("fdd2917e", "",
         << St(693, "cat_json") >>),
    Cell("2ab89f23", "",
         << St(714, "merge_events_1"), St(715, "merge_events_2"),
            St(716, "expr") >>),
    Cell("16c03ecd", "",
         << St(739, "event_id") >>),
    Cell("797646c8", "",
         << St(764, "Epochs") >>),
    Cell("a8f75540", "",
         << St(774, "expr") >>),
    Cell("773813f4", "",
         << St(796, "plot") >>),
    Cell("0bd68014", "",
         << St(819, "plot") >>),
    Cell("e46c8bc0", "",
         << St(855, "apply_baseline"), St(856, "plot") >>),
    Cell("6bc1bfdf", "",
         << St(885, "drop_bad") >>),
    Cell("9e942bdb", "",
         << St(903, "plot") >>),
    Cell("2f22aecc", "skip-execution",
         << St(931, "cat_json") >>),
    Cell("735ae342", "skip-execution",
         << St(946, "expr") >>)
  >>

(* epoching_old: the code cells of src/ipynb/3-epoching.ipynb, lines 54-376. *)
epoching_old ==
  <<
    Cell("e0bdf3a0", "",
         << St(54, "import"), St(55, "import"), St(56, "import"),
            St(57, "import"), St(59, "assign"), St(60, "assign"),
            St(61, "assign"), St(62, "assign"), St(63, "assign"),
            St(64, "assign"), St(65, "assign"), St(66, "assign"),
            St(68, "get_erpcore"), St(69, "raw_file_0"),
            St(71, "read_raw"), For(73, "zip_eog", 19),
            St(74, "set_bipolar_reference"),
            StJ(75, "set_channel_types", 16), St(76, "drop_channels"),
            St(77, "set_montage"), St(79, "filter"),
            St(81, "copy_filter"), St(82, "ICA"), St(83, "ica_fit"),
            St(84, "find_bads_eog"), St(85, "ica_exclude"),
            St(86, "ica_apply"), St(88, "set_eeg_reference") >>),
    Cell("3c7a6328", "",
         << St(98, "expr") >>),
    Cell("5e92e44d", "",
         << St(120, "import") >>),
    Cell("b2b1ddd8", "",
         << St(146, "events_from_annotations") >>),
    Cell("82b8aca1", "",
         << St(156, "expr") >>),
    Cell("f5ba94ca", "",
         << St(170, "expr") >>),
    Cell("85cecea2", "",
         << St(191, "cat_json") >>),
    Cell("582723b5", "",
         << St(216, "event_id_init"), For(217, "range_1_81", 6),
            If(218, "trigger <= 40", 5), StJ(219, "event_id_face", 2),
            StJ(221, "event_id_car", 2), St(223, "expr") >>),
    Cell("53510c6d", "",
         << St(248, "Epochs") >>),
    Cell("d0dde7d3", "",
         << St(258, "expr") >>),
    Cell("54477a8a", "",
         << St(280, "plot") >>),
    Cell("28f8fdd5", "",
         << St(301, "plot") >>),
    Cell("cb133d5b", "",
         << St(336, "apply_baseline"), St(337, "plot") >>),
    Cell("8c12b936", "",
         << St(366, "drop_bad") >>),
    Cell("965dc28e", "",
         << St(376, "plot") >>)
  >>

(* averaging: the code cells of src/unnamed/part_000, lines 65-377. *)
averaging ==
  <<
    Cell("40f45618", "",
         << St(65, "import"), St(66, "import"), St(67, "import"),
            St(68, "import"), St(69, "import"), St(70, "import") >>),
    Cell("39da3fe2", "",
         << St(98, "get_erpcore"), St(99, "raw_file_0"),
            St(100, "log_file_0"), St(103, "read_raw"),
            St(104, "set_bipolar_reference"),
            St(106, "set_bipolar_reference"),
            St(108, "set_channel_types"), St(109, "drop_channels"),
            St(110, "set_montage"), St(111, "filter"),
            St(112, "copy_filter"), St(113, "ICA"), St(114, "ica_fit"),
            St(115, "find_bads_eog"), St(117, "ica_exclude"),
            St(118, "ica_apply"), St(119, "set_eeg_reference"),
            St(122, "read_csv"), St(123, "events_from_log"),
            St(124, "merge_events_1"), St(125, "merge_events_2"),
            St(126, "event_id"), St(127, "Epochs"), St(129, "drop_bad") >>),
    Cell("f16385d2", "",
         << St(149, "expr") >>),
    Cell("6ef40c57", "",
         << St(172, "average_all"), St(173, "expr") >>),
    Cell("98a8e9b2", "",
         << St(183, "expr") >>),
    Cell("63907591", "",
         << St(201, "plot") >>),
    Cell("e2451923", "",
         << St(221, "plot") >>),
    Cell("dcea16ea", "",
         << St(244, "average_face"), St(245, "assign"), St(246, "expr") >>),
    Cell("3bb505e5", "",
         << St(256, "average_car"), St(257, "assign"), St(258, "expr") >>),
    Cell("d19f5559", "",
         << St(278, "assign"), St(279, "plot") >>),
    Cell("b60a0342", "",
         << St(305, "combine_diff"), St(306, "assign"), St(307, "plot") >>),
    Cell("63c8e039", "",
         << St(329, "plot") >>),
    Cell("9a62cf58", "",
         << St(349, "plot") >>),
    Cell("dc37a3c6", "skip-execution",
         << St(377, "expr") >>)
  >>

(* averaging_old: the code cells of src/ipynb/4-averaging.ipynb, lines 65-357. *)
averaging_old ==
  <<
    Cell("83c6d316", "",
         << St(65, "import"), St(67, "import"), St(68, "import"),
            St(69, "import"), St(70, "import") >>),
    Cell("0e2424e3", "",
         << St(97, "assign"), St(98, "assign"), St(99, "assign"),
            St(100, "assign"), St(101, "assign"), St(102, "assign"),
            St(103, "assign"), St(104, "assign"), St(106, "get_erpcore"),
            St(107, "raw_file_0"), St(109, "read_raw"),
            For(111, "zip_eog", 15), St(112, "set_bipolar_reference"),
            StJ(113, "set_channel_types", 12), St(114, "drop_channels"),
            St(115, "set_montage"), St(117, "filter"),
            St(119, "copy_filter"), St(120, "ICA"), St(121, "ica_fit"),
            St(122, "find_bads_eog"), St(123, "ica_exclude"),
            St(124, "ica_apply"), St(126, "set_eeg_reference"),
            St(128, "events_from_annotations"),
            St(129, "merge_events_1"), St(130, "merge_events_2"),
            St(131, "event_id"), St(133, "Epochs_reject") >>),
    Cell("fdbd1b6c", "",
         << St(154, "expr") >>),
    Cell("46152cea", "",
         << St(177, "average_all"), St(178, "expr") >>),
    Cell("76e89094", "",
         << St(188, "expr") >>),
    Cell("f3ef22be", "",
         << St(206, "plot") >>),
    Cell("da9de26f", "",
         << St(226, "plot") >>),
    Cell("9962b392", "",
         << St(249, "average_face"), St(250, "assign"), St(251, "expr") >>),
    Cell("2dbc16d7", "",
         << St(261, "average_car"), St(262, "assign"), St(263, "expr") >>),
    Cell("c37709b8", "",
         << St(283, "assign"), St(284, "plot") >>),
    Cell("dbad9777", "",
         << St(310, "combine_diff"), St(311, "assign"), St(312, "plot") >>),
    Cell("395c76ef", "",
         << St(334, "plot") >>),
    Cell("3a9d51e0", "",
         << St(357, "plot") >>)
  >>

(* The per-participant loop of the pipeline chapter with its re-referencing *)
(* and ICA-apply statements exchanged.                                      *)
pipeline_loop_reref_first ==
    Cell("371bdf55", "",
         << St(130, "init_face"), St(131, "init_car"),
            St(132, "init_diff"), For(134, "zip_files", 33),
            St(138, "read_raw"), St(139, "set_bipolar_reference"),
            St(141, "set_bipolar_reference"),
            St(143, "set_channel_types"), St(144, "drop_channels"),
            St(145, "set_montage"), St(146, "filter"),
            St(147, "copy_filter"), St(148, "ICA"), St(149, "ica_fit"),
            St(150, "find_bads_eog"), St(152, "ica_exclude"),
            St(153, "set_eeg_reference"), St(154, "ica_apply"),
            St(157, "read_csv"), St(158, "events_from_log"),
            St(159, "merge_events_1"), St(160, "merge_events_2"),
            St(161, "event_id"), St(162, "Epochs"), St(164, "drop_bad"),
            St(167, "average_face"), St(168, "append_face"),
            St(169, "average_car"), St(170, "append_car"),
            St(171, "assign"), St(172, "combine_diff"),
            StJ(173, "append_diff", 4) >>)

(* The per-participant loop cell of the pipeline chapter,                  *)
(* src/unnamed/part_003 lines 130-173.                                     *)
pipeline_loop ==
    Cell("371bdf55", "",
         << St(130, "init_face"), St(131, "init_car"),
            St(132, "init_diff"), For(134, "zip_files", 33),
            St(138, "read_raw"), St(139, "set_bipolar_reference"),
            St(141, "set_bipolar_reference"),
            St(143, "set_channel_types"), St(144, "drop_channels"),
            St(145, "set_montage"), St(146, "filter"),
            St(147, "copy_filter"), St(148, "ICA"), St(149, "ica_fit"),
            St(150, "find_bads_eog"), St(152, "ica_exclude"),
            St(153, "ica_apply"), St(154, "set_eeg_reference"),
            St(157, "read_csv"), St(158, "events_from_log"),
            St(159, "merge_events_1"), St(160, "merge_events_2"),
            St(161, "event_id"), St(162, "Epochs"), St(164, "drop_bad"),
            St(167, "average_face"), St(168, "append_face"),
            St(169, "average_car"), St(170, "append_car"),
            St(171, "assign"), St(172, "combine_diff"),
            StJ(173, "append_diff", 4) >>)

(* pipeline: the code cells of src/unnamed/part_003, lines 58-489. *)
pipeline ==
  <<
    Cell("61a3d603", "",
         << St(58, "import"), St(59, "import"), St(60, "import"),
            St(61, "import"), St(62, "import"), St(63, "import"),
            St(64, "import"), St(65, "import"), St(66, "import") >>),
    Cell("426cf79b", "",
         << St(95, "get_erpcore") >>),
    Cell("1f3f9e13", "",
         << St(105, "expr") >>),
    pipeline_loop,
    Cell("ef3b24bf", "",
         << St(195, "grand_face"), St(196, "assign"),
            St(198, "grand_car"), St(199, "assign"), St(201, "assign"),
            St(202, "plot") >>),
    Cell("88000bff", "",
         << St(224, "grand_diff"), St(225, "assign"), St(226, "plot") >>),
    Cell("f01c9633", "",
         << St(246, "plot") >>),
    Cell("879840bf", "",
         << St(288, "group_pipeline") >>),
    Cell("8ba410bb", "",
         << St(348, "expr") >>),
    Cell("322d3309", "",
         << St(379, "expr") >>),
    Cell("d32ab0ae", "",
         << St(398, "plot") >>),
    Cell("1b3a6a74", "",
         << St(419, "plot"), St(421, "plot"), St(422, "plot"),
            St(423, "plot"), St(424, "plot"), St(425, "plot"),
            St(426, "plot") >>),
    Cell("8635560d", "",
         << St(461, "expr") >>),
    Cell("a2e481ea", "skip-execution",
         << St(489, "expr") >>)
  >>

(* statistics: the code cells of src/unnamed/part_005, lines 56-423. *)
statistics ==
  <<
    Cell("4c0406ff", "",
         << St(56, "import"), St(57, "import"), St(58, "import"),
            St(59, "import") >>),
    Cell("e065b35c", "",
         << St(85, "get_erpcore"), St(88, "group_pipeline") >>),
    Cell("225bc0ad", "",
         << St(123, "expr") >>),
    Cell("b8ed773d", "",
         << St(144, "assign"), St(145, "expr") >>),
    Cell("65fa05f3", "",
         << St(166, "plot") >>),
    Cell("c70754d9", "",
         << St(192, "assign"), St(196, "expr") >>),
    Cell("1bfb8ede", "",
         << St(217, "magic") >>),
    Cell("cd491999", "",
         << St(241, "magic") >>),
    Cell("fdaf5efd", "",
         << St(266, "assign"), St(268, "assign"), St(269, "expr") >>),
    Cell("de249e9d", "",
         << St(279, "magic") >>),
    Cell("3977f0bb", "",
         << St(299, "magic") >>),
    Cell("a3bbeb60", "",
         << St(343, "magic") >>),
    Cell("330d5d34", "",
         << St(373, "magic") >>),
    Cell("d86d6765", "skip-execution",
         << St(423, "expr") >>)
  >>

Chapters ==
    {"python", "python_old", "preprocessing", "preprocessing_old", "epoching",
     "epoching_old", "averaging", "averaging_old", "pipeline", "statistics"}

Script(ch) ==
    CASE ch = "python" -> python
      [] ch = "python_old" -> python_old
      [] ch = "preprocessing" -> preprocessing
      [] ch = "preprocessing_old" -> preprocessing_old
      [] ch = "epoching" -> epoching
      [] ch = "epoching_old" -> epoching_old
      [] ch = "averaging" -> averaging
      [] ch = "averaging_old" -> averaging_old
      [] ch = "pipeline" -> pipeline
      [] ch = "statistics" -> statistics

(* Every <<cell, statement>> position of a chapter.                        *)
Positions(ch) ==
    UNION {{<<c, p>> : p \in 1..Len(Script(ch)[c].body)} : c \in 1..Len(Script(ch))}

StmtAt(ch, pos) == Script(ch)[pos[1]].body[pos[2]]

(***************************************************************************)
(* Bounds and the literals of the code.                                    *)
(***************************************************************************)
(* get_erpcore returns at most MaxFiles raw files and MaxFiles log files.  *)
MaxFiles == 3

names == <<"Alice", "Bob", "Chantoya">>

eog_names == <<"VEOG", "HEOG">>

eog_anodes == <<"FP1", "HEOG_right">>

eog_cathodes == <<"VEOG_lower", "HEOG_left">>

(* Python's range(a, b): the integers a, a+1, ..., b-1.                    *)
range(a, b) == [i \in 1..(IF b > a THEN b - a ELSE 0) |-> a + i - 1]

Min(a, b) == IF a <= b THEN a ELSE b

(* Python's zip stops at the end of its shortest argument.                 *)
ZipLen(a, b) == Min(Len(a), Len(b))

(***************************************************************************)
(* The notebook-local variables.                                           *)
(***************************************************************************)
(* Files are named by their kind and the participant they belong to.       *)
NoFile == <<"none", 0>>

NoEpochs == [raw |-> NoFile, log |-> NoFile]

NoEvoked == [cond |-> "none", raw |-> NoFile, log |-> NoFile]

NoDiff == [plus |-> NoEvoked, minus |-> NoEvoked]

Env0 ==
    [my_var |-> [type |-> "none", items |-> <<>>],
     acquired |-> FALSE,
     raw_files |-> <<>>, log_files |-> <<>>,
     raw_file |-> NoFile, log_file |-> NoFile,
     raw |-> NoFile, log |-> NoFile,
     epochs |-> NoEpochs,
     evoked_face |-> NoEvoked, evoked_car |-> NoEvoked, evoked_diff |-> NoDiff,
     evokeds_face |-> <<>>, evokeds_car |-> <<>>, evokeds_diff |-> <<>>,
     event_id |-> {}]

(* A list insertion at the front instead of the end.                       *)
ListPrepend(list, x) == <<x>> \o list

(* list.append(x): x becomes the last element.                             *)
ListAppend(list, x) == Append(list, x)

(* my_var[i] = x, with Python's 0-based index i.                           *)
SetItem(v, i, x) == [v EXCEPT !.items[i + 1] = x]

(* Item assignment that never raises, as if tuples were mutable.           *)
SetItemNeverRaises(v) == FALSE

(* Item assignment is defined for lists only: on a tuple it raises         *)
(* TypeError.                                                              *)
SetItemRaises(v) == v.type # "list"

(* Statements that are plain Python over literals and cannot fail.         *)
NoRaiseOps ==
    {"assign_list", "assign_tuple", "assign_other", "init_face", "init_car",
     "init_diff", "append_face", "append_car", "append_diff", "event_id",
     "event_id_init", "event_id_face", "event_id_car", "def"}

(* The outcomes a statement can have: TRUE if it can raise, FALSE if it    *)
(* can complete.  Library calls can do either; the repository does not     *)
(* constrain them.                                                         *)
CanRaise(op, e) ==
    CASE op = "setitem" -> {SetItemRaises(e.my_var)}
      [] op = "raw_file_0" -> {Len(e.raw_files) = 0}
      [] op = "log_file_0" -> {Len(e.log_files) = 0}
      [] op \in NoRaiseOps -> {FALSE}
      [] OTHER -> BOOLEAN

(* The effect of a statement that completes.                               *)
Apply(op, e) ==
    CASE op = "assign_list" ->
           [e EXCEPT !.my_var = [type |-> "list", items |-> <<"1", "2", "3">>]]
      [] op = "assign_tuple" ->
           [e EXCEPT !.my_var = [type |-> "tuple", items |-> <<"1", "2", "3">>]]
      [] op = "assign_other" ->
           [e EXCEPT !.my_var = [type |-> "other", items |-> <<>>]]
      [] op = "setitem" -> [e EXCEPT !.my_var = SetItem(e.my_var, 2, "Hooray!")]
      [] op \in {"get_erpcore", "get_erpcore_default"} ->
           [e EXCEPT !.acquired = TRUE,
                     !.raw_files = [i \in 1..nRaw |-> <<"raw", i>>],
                     !.log_files = [i \in 1..nLog |-> <<"log", i>>]]
      [] op = "raw_file_0" -> [e EXCEPT !.raw_file = e.raw_files[1]]
      [] op = "log_file_0" -> [e EXCEPT !.log_file = e.log_files[1]]
      [] op = "read_raw" -> [e EXCEPT !.raw = e.raw_file]
      [] op = "read_csv" -> [e EXCEPT !.log = e.log_file]
      [] op \in {"Epochs", "Epochs_reject"} ->
           [e EXCEPT !.epochs = [raw |-> e.raw, log |-> e.log]]
      [] op = "average_face" ->
           [e EXCEPT !.evoked_face =
                [cond |-> "face", raw |-> e.epochs.raw, log |-> e.epochs.log]]
      [] op = "average_car" ->
           [e EXCEPT !.evoked_car =
                [cond |-> "car", raw |-> e.epochs.raw, log |-> e.epochs.log]]
      [] op = "combine_diff" ->
           [e EXCEPT !.evoked_diff = [plus |-> e.evoked_face, minus |-> e.evoked_car]]
      [] op = "init_face" -> [e EXCEPT !.evokeds_face = <<>>]
      [] op = "init_car" -> [e EXCEPT !.evokeds_car = <<>>]
      [] op = "init_diff" -> [e EXCEPT !.evokeds_diff = <<>>]
      [] op = "append_face" ->
           [e EXCEPT !.evokeds_face = ListAppend(e.evokeds_face, e.evoked_face)]
      [] op = "append_car" ->
           [e EXCEPT !.evokeds_car = ListAppend(e.evokeds_car, e.evoked_car)]
      [] op = "append_diff" ->
           [e EXCEPT !.evokeds_diff = ListAppend(e.evokeds_diff, e.evoked_diff)]
      [] op = "event_id_init" -> [e EXCEPT !.event_id = {}]
      [] op = "event_id_face" ->
           [e EXCEPT !.event_id = e.event_id \cup {<<"face", it>>}]
      [] op = "event_id_car" ->
           [e EXCEPT !.event_id = e.event_id \cup {<<"car", it>>}]
      [] op = "event_id" -> [e EXCEPT !.event_id = {<<"face", 1>>, <<"car", 2>>}]
      [] OTHER -> e

(***************************************************************************)
(* Processing stages: which step of the analysis a library call belongs    *)
(* to ("none" for plots, displays, imports and plain assignments).         *)
(***************************************************************************)
StageOf(op) ==
    CASE op \in {"get_erpcore", "get_erpcore_default"} -> "acquire"
      [] op = "read_raw" -> "raw"
      [] op \in {"set_bipolar_reference", "set_channel_types", "drop_channels"} -> "eog"
      [] op = "set_montage" -> "montage"
      [] op = "filter" -> "filter"
      [] op \in {"copy_filter", "ICA", "ica_fit"} -> "ica_fit"
      [] op \in {"find_bads_eog", "ica_exclude", "ica_apply"} -> "ica_apply"
      [] op = "set_eeg_reference" -> "reference"
      [] op \in {"read_csv", "events_from_log", "events_from_annotations",
                 "merge_events_1", "merge_events_2", "event_id", "event_id_init",
                 "event_id_face", "event_id_car", "Epochs", "apply_baseline"} -> "epochs"
      [] op = "drop_bad" -> "reject"
      [] op \in {"average_all", "average_face", "average_car"} -> "average"
      [] op = "combine_diff" -> "difference"
      [] OTHER -> "none"

(* The stages a statement adds to the history of the current signal.       *)
(* Epochs(..., reject=...) both cuts the epochs and sets their rejection.   *)
StagesOf(op) ==
    IF op = "Epochs_reject" THEN <<"epochs", "reject">>
    ELSE IF StageOf(op) = "none" THEN <<>> ELSE <<StageOf(op)>>

RECURSIVE Extend(_, _)
(* The history t extended by the stages s, a stage that repeats the last   *)
(* one recorded once.                                                      *)
Extend(t, s) ==
    IF s = <<>> THEN t
    ELSE Extend(IF t # <<>> /\ t[Len(t)] = Head(s) THEN t ELSE Append(t, Head(s)),
                Tail(s))

(* read_raw constructs a new signal: its history starts anew; data         *)
(* acquisition precedes any signal.                                        *)
NextTrace(op, t) ==
    IF op = "read_raw" THEN <<"raw">>
    ELSE IF StageOf(op) = "acquire" THEN <<>>
    ELSE Extend(t, StagesOf(op))

(***************************************************************************)
(* The interpreter.                                                        *)
(***************************************************************************)
CurCell == Script(chapter)[cell]

Cur == CurCell.body[pc]

(* Length of the iterable of a for loop.                                   *)
IterLen(iterable, e) ==
    CASE iterable = "zip_files" -> ZipLen(e.raw_files, e.log_files)
      [] iterable = "names" -> Len(names)
      [] iterable = "zip_eog" -> Min(ZipLen(eog_names, eog_anodes), Len(eog_cathodes))
      [] iterable = "range_1_81" -> Len(range(1, 81))

(* A for loop that stops one element early.                                *)
HasNextShort(i, n) == i + 1 < n

(* Whether a for loop that has consumed i elements of n has another one.   *)
HasNext(i, n) == i < n

(* Binding of the loop variables to element i of the iterable.             *)
Bind(iterable, i, e) ==
    IF iterable = "zip_files"
    THEN [e EXCEPT !.raw_file = e.raw_files[i], !.log_file = e.log_files[i]]
    ELSE e

(* The condition of the only if statement, `trigger <= 40`, where trigger  *)
(* is element i of range(1, 81).                                           *)
Cond(cond, i) == range(1, 81)[i] <= 40

(* Control moves to statement p of cell c; past the last statement of a    *)
(* cell it moves to the next cell, past the last cell the run is done.     *)
Goto(c, p) ==
    LET over == c <= Len(Script(chapter)) /\ p > Len(Script(chapter)[c].body)
        c2 == IF over THEN c + 1 ELSE c
        p2 == IF over THEN 1 ELSE p
    IN  /\ cell' = c2
        /\ pc' = p2
        /\ status' = IF c2 > Len(Script(chapter)) THEN "done" ELSE "running"

(* An exception that is swallowed: the run continues with the statement   *)
(* after the one that raised.                                              *)
AfterRaiseSwallow(tag, c, p) == [cell |-> c, pc |-> p + 1, halt |-> FALSE]

(* Where a run continues after a statement of a cell with tag `tag` raised *)
(* at <<c, p>>: an exception is not caught, so the cell ends there; the    *)
(* notebook run ends with it unless the cell is tagged raises-exception.   *)
AfterRaise(tag, c, p) ==
    IF tag = "raises-exception"
    THEN [cell |-> c + 1, pc |-> 1, halt |-> FALSE]
    ELSE [cell |-> c, pc |-> p, halt |-> TRUE]

Running == status = "running" /\ CurCell.tag # "skip-execution"

Bump == count' = [count EXCEPT ![<<cell, pc>>] = @ + 1]

(* A cell tagged skip-execution is not executed.                           *)
SkipCell ==
    /\ status = "running"
    /\ CurCell.tag = "skip-execution"
    /\ Goto(cell + 1, 1)
    /\ UNCHANGED <<chapter, nRaw, nLog, it, count, env, trace, aborted>>
    /\ UNCHANGED notNb

(* A statement completes.                                                  *)
Exec ==
    /\ Running
    /\ Cur.kind = "stmt"
    /\ FALSE \in CanRaise(Cur.op, env)
    /\ Bump
    /\ env' = Apply(Cur.op, env)
    /\ trace' = NextTrace(Cur.op, trace)
    /\ Goto(cell, IF Cur.tgt = 0 THEN pc + 1 ELSE Cur.tgt)
    /\ UNCHANGED <<chapter, nRaw, nLog, it, aborted>>
    /\ UNCHANGED notNb

(* A statement raises.                                                     *)
Raise ==
    /\ Running
    /\ Cur.kind = "stmt"
    /\ TRUE \in CanRaise(Cur.op, env)
    /\ Bump
    /\ aborted' = aborted \cup {<<cell, pc>>}
    /\ LET r == AfterRaise(CurCell.tag, cell, pc)
       IN  IF r.halt
           THEN /\ status' = "error"
                /\ cell' = r.cell
                /\ pc' = r.pc
                /\ it' = it
           ELSE /\ Goto(r.cell, r.pc)
                /\ it' = IF r.cell = cell THEN it ELSE 0
    /\ UNCHANGED <<chapter, nRaw, nLog, env, trace>>
    /\ UNCHANGED notNb

(* A for header takes the next element of its iterable.                    *)
ForNext ==
    /\ Running
    /\ Cur.kind = "for"
    /\ HasNext(it, IterLen(Cur.op, env))
    /\ it' = it + 1
    /\ env' = Bind(Cur.op, it + 1, env)
    /\ Goto(cell, pc + 1)
    /\ UNCHANGED <<chapter, nRaw, nLog, count, trace, aborted>>
    /\ UNCHANGED notNb

(* A for header finds its iterable exhausted.                              *)
ForExit ==
    /\ Running
    /\ Cur.kind = "for"
    /\ ~HasNext(it, IterLen(Cur.op, env))
    /\ it' = 0
    /\ Goto(cell, Cur.tgt)
    /\ UNCHANGED <<chapter, nRaw, nLog, count, env, trace, aborted>>
    /\ UNCHANGED notNb

(* An if header selects its branch.                                        *)
Branch ==
    /\ Running
    /\ Cur.kind = "if"
    /\ Goto(cell, IF Cond(Cur.op, it) THEN pc + 1 ELSE Cur.tgt)
    /\ UNCHANGED <<chapter, nRaw, nLog, it, count, env, trace, aborted>>
    /\ UNCHANGED notNb

NbInit ==
    /\ chapter \in Chapters
    /\ nRaw \in 0..MaxFiles
    /\ nLog \in 0..MaxFiles
    /\ cell = 1
    /\ pc = 1
    /\ it = 0
    /\ status = "running"
    /\ count = [pos \in Positions(chapter) |-> 0]
    /\ env = Env0
    /\ trace = <<>>
    /\ aborted = {}

NbNext == SkipCell \/ Exec \/ Raise \/ ForNext \/ ForExit \/ Branch

(***************************************************************************)
(* Two chapter runs on one file system.  All notebooks lie in ipynb/ and   *)
(* name their directories relative to it, so 'data' and 'output' are the   *)
(* same directories for every chapter.  A run is reduced to its file       *)
(* accesses, in program order (a loop body once).                          *)
(***************************************************************************)
Runs == {1, 2}

RECURSIVE Statements(_, _)
(* The statements of the executed cells of a script from cell c on.        *)
Statements(script, c) ==
    IF c > Len(script) THEN <<>>
    ELSE (IF script[c].tag = "skip-execution" THEN <<>> ELSE script[c].body)
         \o Statements(script, c + 1)

FileOpNames ==
    {"get_erpcore", "get_erpcore_default", "read_raw", "read_csv", "cat_log",
     "cat_json", "group_pipeline"}

IsFileOp(s) == s.kind = "stmt" /\ s.op \in FileOpNames

FileOps(ch) == SelectSeq(Statements(Script(ch), 1), IsFileOp)

(* The participants argument of the chapter's get_erpcore call.            *)
ParticipantsArg(ch) == IF ch \in {"pipeline", "statistics"} THEN "10" ELSE "sub-004"

(* The directory the chapter's get_erpcore call downloads to: path='data', *)
(* or the library's default when no path is given.                         *)
DataDir(ch) == IF ch = "preprocessing_old" THEN "default" ELSE "data"

Files ==
    {<<d, f>> : d \in {"data", "default"}, f \in {"sub-004", "10", "task-N170_events.json"}}
        \cup {<<"output", "results">>}

(* The files of one participant selection and the task-level file.         *)
Fetched(ch) ==
    {<<DataDir(ch), ParticipantsArg(ch)>>, <<DataDir(ch), "task-N170_events.json">>}

(* The files a statement reads and the files it writes.                    *)
Reads(ch, op) ==
    CASE op \in {"read_raw", "read_csv", "cat_log", "group_pipeline"} ->
              {<<DataDir(ch), ParticipantsArg(ch)>>}
      [] op = "cat_json" -> {<<"data", "task-N170_events.json">>}
      [] OTHER -> {}

Writes(ch, op) ==
    CASE op \in {"get_erpcore", "get_erpcore_default"} -> Fetched(ch)
      [] op = "group_pipeline" -> {<<"output", "results">>}
      [] OTHER -> {}

(* All notebooks executed by one kernel: every run assigns its variables   *)
(* in the namespace of run 1.                                              *)
SharedNamespace(r) == 1

(* Each notebook is executed by a kernel of its own: a run's variables     *)
(* live in its own namespace.                                              *)
Namespace(r) == r

ShOp(r) == FileOps(shChapter[r])[shPos[r]].op

ShEnabled(r) == shPos[r] <= Len(FileOps(shChapter[r]))

(* Accesses by run r to files of the set fsel that another run wrote.      *)
ForeignAccess(r, fsel, kind) ==
    {[by |-> r, file |-> f, kind |-> kind, of |-> fs[f]] :
        f \in {g \in fsel : fs[g] \notin {0, r}}}

(* get_erpcore: a file that is absent is downloaded; one that is present   *)
(* is either used as it is or downloaded again (the library decides).      *)
Download(r) ==
    /\ ShEnabled(r)
    /\ ShOp(r) \in {"get_erpcore", "get_erpcore_default"}
    /\ \E reuse \in BOOLEAN :
          LET ws == Writes(shChapter[r], ShOp(r))
              fresh == {f \in ws : fs[f] = 0 \/ ~reuse}
          IN  /\ fs' = [f \in Files |-> IF f \in fresh THEN r ELSE fs[f]]
              /\ foreign' = foreign
                    \cup ForeignAccess(r, fresh, "overwrite")
                    \cup ForeignAccess(r, ws \ fresh, "read")
    /\ shLocals' = [shLocals EXCEPT ![Namespace(r)].files_dict = ParticipantsArg(shChapter[r])]
    /\ shPos' = [shPos EXCEPT ![r] = @ + 1]
    /\ UNCHANGED shChapter
    /\ UNCHANGED notSh

(* read_raw, pd.read_csv and %cat read a downloaded file.                  *)
ReadFile(r) ==
    /\ ShEnabled(r)
    /\ ShOp(r) \in {"read_raw", "read_csv", "cat_log", "cat_json"}
    /\ foreign' = foreign \cup ForeignAccess(r, Reads(shChapter[r], ShOp(r)), "read")
    /\ shPos' = [shPos EXCEPT ![r] = @ + 1]
    /\ UNCHANGED <<shChapter, shLocals, fs>>
    /\ UNCHANGED notSh

(* group_pipeline reads the raw and log files and writes its results as    *)
(* text files into output_dir.                                             *)
GroupPipeline(r) ==
    /\ ShEnabled(r)
    /\ ShOp(r) = "group_pipeline"
    /\ LET ws == Writes(shChapter[r], ShOp(r))
       IN  /\ fs' = [f \in Files |-> IF f \in ws THEN r ELSE fs[f]]
           /\ foreign' = foreign
                 \cup ForeignAccess(r, Reads(shChapter[r], ShOp(r)), "read")
                 \cup ForeignAccess(r, ws, "overwrite")
    /\ shLocals' = [shLocals EXCEPT ![Namespace(r)].trials = r]
    /\ shPos' = [shPos EXCEPT ![r] = @ + 1]
    /\ UNCHANGED shChapter
    /\ UNCHANGED notSh

ShInit ==
    /\ shChapter \in {f \in [Runs -> Chapters] : f[1] # f[2]}
    /\ shPos = [r \in Runs |-> 1]
    /\ shLocals = [n \in Runs |-> [files_dict |-> "unset", trials |-> 0]]
    /\ fs = [f \in Files |-> 0]
    /\ foreign = {}

ShNext == \E r \in Runs : Download(r) \/ ReadFile(r) \/ GroupPipeline(r)

(***************************************************************************)
(* The deploy-book workflow, .github/workflows/deploy.yml.                 *)
(***************************************************************************)
(* At most MaxRuns runs are triggered.                                     *)
MaxRuns == 3

RunIds == 1..MaxRuns

(* on: push to main, workflow_dispatch.                                    *)
Events == {"push", "workflow_dispatch"}

(* concurrency.group: the same literal for every run of the workflow.      *)
Group(ev) == "pages"

(* concurrency.cancel-in-progress set to true.                             *)
cancel_in_progress_true == TRUE

(* concurrency.cancel-in-progress.                                         *)
cancel_in_progress == FALSE

(* A shell without -e: a failing command does not end the script.          *)
errexit_off == FALSE

(* defaults.run.shell: bash -leo pipefail, where -e ends the script at the *)
(* first command that fails.                                               *)
errexit == TRUE

(* jobs.deploy-book.steps: each step with the commands it runs (an action  *)
(* referenced with `uses` is one command).                                 *)
Steps ==
    << [name |-> "Checkout repository", cmds |-> <<"actions/checkout@v3">>],
       [name |-> "Setup Micromamba", cmds |-> <<"mamba-org/setup-micromamba@v1">>],
       [name |-> "Convert Python scripts to notebooks",
        cmds |-> <<"mkdir -p ipynb", "jupytext --to ipynb py/*.py",
                   "mv py/*.ipynb ipynb/">>],
       [name |-> "Commit and push notebooks to GitHub",
        cmds |-> <<"stefanzweifel/git-auto-commit-action@v5">>],
       [name |-> "Build the book", cmds |-> <<"jupyter-book build .">>],
       [name |-> "Upload book's HTML as an artifact",
        cmds |-> <<"actions/upload-pages-artifact@v2">>],
       [name |-> "Deploy book's HTML to GitHub Pages",
        cmds |-> <<"actions/deploy-pages@v2">>] >>

(* A queued run that is kept when a newer run of its group is queued.      *)
KeepQueued(st) == st

(* What becomes of an earlier run in state st when a new run of its        *)
(* concurrency group is queued: a pending run is skipped (cancelled), a    *)
(* run in progress is cancelled only under cancel-in-progress.             *)
Supersede(st) ==
    IF st = "pending" \/ (st = "in_progress" /\ cancel_in_progress)
    THEN "cancelled" ELSE st

(* A new run is queued for the event ev: it waits as the pending run of    *)
(* its concurrency group.                                                  *)
Trigger(ev) ==
    /\ nRuns < MaxRuns
    /\ LET r == nRuns + 1
           head == IF ev = "push" THEN main + 1 ELSE main
       IN  /\ nRuns' = r
           /\ main' = head
           /\ rEvent' = [rEvent EXCEPT ![r] = ev]
           /\ rSha' = [rSha EXCEPT ![r] = head]
           /\ rStatus' = [q \in RunIds |->
                            IF q = r THEN "pending"
                            ELSE IF rEvent[q] # "none" /\ Group(rEvent[q]) = Group(ev)
                                 THEN Supersede(rStatus[q])
                                 ELSE rStatus[q]]
    /\ UNCHANGED <<rStep, rCmd, rLog, pagesSha>>
    /\ UNCHANGED notDp

(* A commit is pushed to main.                                             *)
Push == Trigger("push")

(* The workflow is started by hand from the Actions page.                  *)
Dispatch == Trigger("workflow_dispatch")

(* The pending run starts once no run of its group is in progress.         *)
Start(r) ==
    /\ rStatus[r] = "pending"
    /\ \A q \in RunIds :
          rStatus[q] = "in_progress" => Group(rEvent[q]) # Group(rEvent[r])
    /\ rStatus' = [rStatus EXCEPT ![r] = "in_progress"]
    /\ rStep' = [rStep EXCEPT ![r] = 1]
    /\ rCmd' = [rCmd EXCEPT ![r] = 1]
    /\ UNCHANGED <<main, nRuns, rEvent, rSha, rLog, pagesSha>>
    /\ UNCHANGED notDp

(* The run in progress has run its next command with outcome ok.  A step   *)
(* fails when a command fails under -e, or when its last command fails;    *)
(* a failed step fails the run, whose later steps are not started (they    *)
(* carry no `if`, so each runs only if all earlier steps succeeded).  The  *)
(* last step publishes the HTML.                                           *)
Command(r, ok) ==
    /\ rStatus[r] = "in_progress"
    /\ LET s == rStep[r]
           c == rCmd[r]
           last == c = Len(Steps[s].cmds)
           stepFails == ~ok /\ (errexit \/ last)
       IN  /\ rLog' = [rLog EXCEPT ![r] = Append(@, [step |-> s, cmd |-> c, ok |-> ok])]
           /\ rStatus' = [rStatus EXCEPT ![r] =
                            IF stepFails THEN "failure"
                            ELSE IF last /\ s = Len(Steps) THEN "success"
                            ELSE @]
           /\ rStep' = [rStep EXCEPT ![r] = IF ~stepFails /\ last THEN s + 1 ELSE s]
           /\ rCmd' = [rCmd EXCEPT ![r] =
                            IF stepFails THEN c ELSE IF last THEN 1 ELSE c + 1]
           /\ pagesSha' = IF ~stepFails /\ last /\ s = Len(Steps) THEN rSha[r]
                          ELSE pagesSha
    /\ UNCHANGED <<main, nRuns, rEvent, rSha>>
    /\ UNCHANGED notDp

CommandOk(r) == Command(r, TRUE)

CommandFails(r) == Command(r, FALSE)

DpInit ==
    /\ main = 1
    /\ nRuns = 0
    /\ rEvent = [r \in RunIds |-> "none"]
    /\ rSha = [r \in RunIds |-> 0]
    /\ rStatus = [r \in RunIds |-> "none"]
    /\ rStep = [r \in RunIds |-> 0]
    /\ rCmd = [r \in RunIds |-> 0]
    /\ rLog = [r \in RunIds |-> <<>>]
    /\ pagesSha = 0

DpNext ==
    \/ Push
    \/ Dispatch
    \/ \E r \in RunIds : Start(r) \/ CommandOk(r) \/ CommandFails(r)

(***************************************************************************)
(* The Makefile: target all, in its three versions.                        *)
(***************************************************************************)
(* At most MaxScripts scripts lie in py/.                                  *)
MaxScripts == 2

ScriptIds == 1..MaxScripts

(* The Makefile of the repository and its two earlier versions.            *)
Makefiles == {"Makefile", "Makefile_build", "Makefile_build_all"}

(* ifneq (, $(shell command -v git 2>/dev/null)) ... endif: the line is    *)
(* part of the recipe only if git is found.                                *)
IfGit(git, lines) == IF git THEN lines ELSE <<>>

(* The recipe of target all.                                               *)
Recipe(mf, git) ==
    CASE mf = "Makefile" ->
            <<"mkdir -p ipynb", "jupytext --to ipynb py/*.py", "mv py/*.ipynb ipynb/">>
               \o IfGit(git, <<"git checkout -- ipynb/*.ipynb">>)
      [] mf = "Makefile_build" ->
            <<"mkdir -p ipynb", "jupytext --to ipynb py/*.py", "mv py/*.ipynb ipynb/",
              "jupyter-book build .">>
               \o IfGit(git, <<"git checkout -- ipynb/*.ipynb">>)
      [] mf = "Makefile_build_all" ->
            <<"mkdir ipynb", "jupytext --to ipynb py/*.py", "mv py/*.ipynb ipynb/",
              "jupyter-book build . --all">>

BuildCommands == {"jupyter-book build .", "jupyter-book build . --all"}

(* The programs whose result depends on more than the files modelled here: *)
(* the conversion of a script and the build, which executes the notebooks. *)
MayFail == {"jupytext --to ipynb py/*.py"} \cup BuildCommands

(* The notebooks present in ipynb/.                                        *)
InIpynb == {i \in ScriptIds : mkIpynb[i] # "absent"}

(* Whether the files allow the command to succeed: mkdir without -p needs  *)
(* the directory not to exist, a glob needs a file to match, and git       *)
(* checks out only paths it knows.                                         *)
CanRun(cmd) ==
    CASE cmd = "mkdir ipynb" -> ~mkDir
      [] cmd = "jupytext --to ipynb py/*.py" -> mkScripts > 0
      [] cmd = "mv py/*.ipynb ipynb/" -> mkPy # {} /\ mkDir
      [] cmd = "git checkout -- ipynb/*.ipynb" ->
            InIpynb # {} /\ InIpynb \subseteq mkTracked
      [] OTHER -> TRUE

(* The files after the command has succeeded.                              *)
Effect(cmd) ==
    CASE cmd \in {"mkdir ipynb", "mkdir -p ipynb"} ->
            /\ mkDir' = TRUE
            /\ UNCHANGED <<mkPy, mkIpynb, mkBook>>
      [] cmd = "jupytext --to ipynb py/*.py" ->
            /\ mkPy' = mkPy \cup (1..mkScripts)
            /\ UNCHANGED <<mkDir, mkIpynb, mkBook>>
      [] cmd = "mv py/*.ipynb ipynb/" ->
            /\ mkPy' = {}
            /\ mkIpynb' = [i \in ScriptIds |->
                             IF i \in mkPy THEN "converted" ELSE mkIpynb[i]]
            /\ UNCHANGED <<mkDir, mkBook>>
      [] cmd \in BuildCommands ->
            /\ mkBook' = <<mkIpynb>>
            /\ UNCHANGED <<mkDir, mkPy, mkIpynb>>
      [] cmd = "git checkout -- ipynb/*.ipynb" ->
            /\ mkIpynb' = [i \in ScriptIds |->
                             IF i \in InIpynb THEN "committed" ELSE mkIpynb[i]]
            /\ UNCHANGED <<mkDir, mkPy, mkBook>>

(* make runs the next line of the recipe, which succeeds; after the last   *)
(* line make ends with success.                                            *)
MkRunOk ==
    /\ mkStatus = "running"
    /\ LET recipe == Recipe(mkFile, mkGit)
           cmd == recipe[mkPc]
       IN  /\ CanRun(cmd)
           /\ Effect(cmd)
           /\ mkLog' = Append(mkLog, cmd)
           /\ mkPc' = mkPc + 1
           /\ mkStatus' = IF mkPc = Len(recipe) THEN "ok" ELSE "running"
    /\ UNCHANGED <<mkFile, mkGit, mkScripts, mkTracked>>
    /\ UNCHANGED notMk

(* The next line of the recipe fails: make stops with an error and runs no *)
(* further line.                                                           *)
MkRunFails ==
    /\ mkStatus = "running"
    /\ LET cmd == Recipe(mkFile, mkGit)[mkPc]
       IN  /\ ~CanRun(cmd) \/ cmd \in MayFail
           /\ mkLog' = Append(mkLog, cmd)
    /\ mkStatus' = "failed"
    /\ UNCHANGED <<mkFile, mkGit, mkScripts, mkDir, mkPy, mkIpynb, mkTracked,
                   mkBook, mkPc>>
    /\ UNCHANGED notMk

(* `make` is typed in a working tree: some scripts in py/, and in ipynb/   *)
(* the committed notebooks or those a previous run has left.               *)
MkInit ==
    /\ mkFile \in Makefiles
    /\ mkGit \in BOOLEAN
    /\ mkScripts \in 0..MaxScripts
    /\ mkTracked \in SUBSET (1..mkScripts)
    /\ mkIpynb \in [ScriptIds -> {"absent", "committed", "converted"}]
    /\ \A i \in ScriptIds :
          /\ i \in mkTracked => mkIpynb[i] # "absent"
          /\ i \notin mkTracked => mkIpynb[i] # "committed"
          /\ i > mkScripts => mkIpynb[i] = "absent"
    /\ mkDir \in BOOLEAN
    /\ InIpynb # {} => mkDir
    /\ mkPy = {}
    /\ mkBook = <<>>
    /\ mkPc = 1
    /\ mkStatus = "running"
    /\ mkLog = <<>>

MkNext == MkRunOk \/ MkRunFails

MkIdle ==
    /\ mkFile = "Makefile"
    /\ mkGit = FALSE
    /\ mkScripts = 0
    /\ mkTracked = {}
    /\ mkIpynb = [i \in ScriptIds |-> "absent"]
    /\ mkDir = FALSE
    /\ mkPy = {}
    /\ mkBook = <<>>
    /\ mkPc = 1
    /\ mkStatus = "idle"
    /\ mkLog = <<>>

(***************************************************************************)
(* The event codes: the cell that merges the 80 stimulus codes into two.   *)
(***************************************************************************)
(* At most MaxEvents rows in the event array.                              *)
MaxEvents == 2

(* Values of the log: faces 1-40, cars 41-80, scrambled stimuli from 101,  *)
(* responses 201.                                                          *)
Codes == {1, 2, 40, 41, 80, 81, 101, 201}

(* Values of the middle column of a row.                                   *)
Durations == {0, 41}

(* The elements of a Python sequence.                                      *)
Elems(seq) == {seq[i] : i \in DOMAIN seq}

(* mne.merge_events with replace_events=True (the default): in columns 1   *)
(* and 2 (counted from 0) of a copy of the array, every value that is one  *)
(* of ids in the input becomes new_id; rows are neither added, removed nor *)
(* moved.                                                                  *)
merge_events(evs, ids, new_id) ==
    [i \in DOMAIN evs |->
        <<evs[i][1],
          IF evs[i][2] \in Elems(ids) THEN new_id ELSE evs[i][2],
          IF evs[i][3] \in Elems(ids) THEN new_id ELSE evs[i][3]>>]

(* The same two calls with the cars merged first.                          *)
merge_cell_cars_first ==
    << [ids |-> range(41, 81), new_id |-> 2],
       [ids |-> range(1, 41), new_id |-> 1] >>

(* events = merge_events(events, ids=range(1, 41), new_id=1)               *)
(* events = merge_events(events, ids=range(41, 81), new_id=2)              *)
merge_cell ==
    << [ids |-> range(1, 41), new_id |-> 1],
       [ids |-> range(41, 81), new_id |-> 2] >>

(* The next statement of the cell reassigns events.                        *)
MergeEvents ==
    /\ evPc <= Len(merge_cell)
    /\ events' = merge_events(events, merge_cell[evPc].ids, merge_cell[evPc].new_id)
    /\ evPc' = evPc + 1
    /\ UNCHANGED evIn
    /\ UNCHANGED notEv

(* An event array read from a log: rows in the order of their samples.     *)
EvInit ==
    /\ \E n \in 0..MaxEvents :
          \E rows \in [1..n -> Durations \X Codes] :
             evIn = [i \in 1..n |-> <<100 * i, rows[i][1], rows[i][2]>>]
    /\ events = evIn
    /\ evPc = 1

EvNext == MergeEvents

EvIdle ==
    /\ evIn = <<>>
    /\ events = <<>>
    /\ evPc = 0

(***************************************************************************)
(* Epochs and averages as arrays.  Amplitudes are exact fractions of a     *)
(* microvolt, [n, d] with d > 0 and in lowest terms; d = 0 is NaN, the     *)
(* mean of no value.                                                       *)
(***************************************************************************)
Abs(x) == IF x < 0 THEN -x ELSE x

RECURSIVE GCD(_, _)
GCD(a, b) == IF b = 0 THEN a ELSE GCD(b, a % b)

NaN == [n |-> 0, d |-> 0]

Q(n, d) ==
    IF d = 0 THEN NaN
    ELSE LET g == GCD(Abs(n), Abs(d))
             sgn == IF d < 0 THEN -1 ELSE 1
         IN  [n |-> sgn * (n \div g), d |-> sgn * (d \div g)]

QAdd(x, y) == IF x.d = 0 \/ y.d = 0 THEN NaN ELSE Q(x.n * y.d + y.n * x.d, x.d * y.d)

QNeg(x) == [n |-> -x.n, d |-> x.d]

QSub(x, y) == QAdd(x, QNeg(y))

(* 1 / x; NaN for x = 0.                                                   *)
QInv(x) == Q(x.d, x.n)

QMul(x, y) == IF x.d = 0 \/ y.d = 0 THEN NaN ELSE Q(x.n * y.n, x.d * y.d)

(* x <= y; every comparison with NaN is false.                             *)
QLe(x, y) == x.d # 0 /\ y.d # 0 /\ x.n * y.d <= y.n * x.d

RECURSIVE QSum(_)
QSum(xs) == IF xs = <<>> THEN Q(0, 1) ELSE QAdd(xs[1], QSum(Tail(xs)))

(* numpy.mean: the sum divided by the number of values; NaN for none.      *)
QMean(xs) == QMul(QSum(xs), Q(1, Len(xs)))

QMax(xs) == CHOOSE x \in Elems(xs) : \A y \in Elems(xs) : QLe(y, x)

QMin(xs) == CHOOSE x \in Elems(xs) : \A y \in Elems(xs) : QLe(x, y)

(* The channels of the signal after the channel set-up, reduced to two EEG *)
(* channels and one EOG channel, with their types.                         *)
ch_names == <<"PO8", "FP1", "VEOG">>

ch_types == [c \in Elems(ch_names) |-> IF c = "VEOG" THEN "eog" ELSE "eeg"]

(* The sample times of an epoch from tmin=-0.2 to tmax=0.8, in ms, at five *)
(* samples per second.                                                     *)
times == <<-200, 0, 200, 400, 600, 800>>

(* Courses of one channel over an epoch, in microvolts, named after their  *)
(* peak-to-peak amplitude.                                                 *)
ptp70 == <<10, 30, 20, -40, 0, 20>>

ptp100 == <<20, 40, 100, 0, 50, 50>>

ptp110 == <<5, 10, 110, 0, 10, 10>>

ptp200 == <<0, -20, 150, -50, 0, 0>>

ptp210 == <<0, 0, 210, 0, 0, 0>>

ptp300 == <<0, 0, 300, 0, 0, 0>>

(* The signal around one event: channel -> its course.                     *)
Window(po8, fp1, veog) ==
    [c \in Elems(ch_names) |->
        LET course == CASE c = "PO8" -> po8 [] c = "FP1" -> fp1 [] c = "VEOG" -> veog
        IN  [t \in DOMAIN times |-> Q(course[t], 1)]]

Windows ==
    { Window(ptp100, ptp70, ptp70), Window(ptp110, ptp70, ptp70),
      Window(ptp200, ptp70, ptp70), Window(ptp100, ptp210, ptp70),
      Window(ptp100, ptp70, ptp300), Window(ptp70, ptp70, ptp70) }

(* event_id = {'face': 1, 'car': 2}                                        *)
event_id == [face |-> 1, car |-> 2]

(* The events of a recording after the merge, each with the signal around  *)
(* it: faces, cars and responses (201).                                    *)
Trials ==
    {[value |-> v, data |-> w] : v \in {event_id.face, event_id.car}, w \in Windows}
       \cup {[value |-> 201, data |-> Window(ptp70, ptp70, ptp70)]}

(* The statements of a chapter that make or change epochs and averages of  *)
(* one participant, in program order.                                      *)
EpochOpNames ==
    {"Epochs", "Epochs_reject", "apply_baseline", "drop_bad", "average_all",
     "average_face", "average_car", "combine_diff"}

IsEpochOp(s) == s.kind = "stmt" /\ s.op \in EpochOpNames

EpochOps(ch) == SelectSeq(Statements(Script(ch), 1), IsEpochOp)

EpochChapters == {ch \in Chapters : EpochOps(ch) # <<>>}

(* No baseline interval: baseline=None.                                    *)
None == <<>>

(* The baseline argument of the chapter's Epochs call, in ms.              *)
CtorBaseline(ch) == IF ch \in {"epoching", "epoching_old"} THEN None ELSE <<-200, 0>>

(* The argument of apply_baseline, in ms.                                  *)
baseline_arg == <<-200, 0>>

(* The chapter's rejection threshold {'eeg': T}, in microvolts: 200e-6 in  *)
(* the pipeline loop, 100e-6 elsewhere.                                    *)
RejectArg(ch) == IF ch = "pipeline" THEN [eeg |-> 200] ELSE [eeg |-> 100]

(* The values within [b[1], b[2]), the end b[2] excluded.                  *)
InIntervalOpen(course, b) ==
    LET ix == SelectSeq([i \in DOMAIN times |-> i],
                        LAMBDA i : b[1] <= times[i] /\ times[i] < b[2])
    IN  [k \in DOMAIN ix |-> course[ix[k]]]

(* The values of a course at the sample times within [b[1], b[2]], both    *)
(* ends included.                                                          *)
InInterval(course, b) ==
    LET ix == SelectSeq([i \in DOMAIN times |-> i],
                        LAMBDA i : b[1] <= times[i] /\ times[i] <= b[2])
    IN  [k \in DOMAIN ix |-> course[ix[k]]]

(* mne.baseline.rescale, mode 'mean': the mean of the baseline interval is *)
(* subtracted from every sample of the course.                             *)
rescale(course, b) ==
    LET base == QMean(InInterval(course, b))
    IN  [t \in DOMAIN course |-> QSub(course[t], base)]

(* Baseline correction of one epoch: each channel separately.              *)
Corrected(data, b) ==
    IF b = None THEN data ELSE [c \in DOMAIN data |-> rescale(data[c], b)]

PeakToPeak(course) == QSub(QMax(course), QMin(course))

(* The threshold applied to every channel, whatever its type.              *)
is_good_any_type(data, reject) ==
    \A c \in DOMAIN data : QLe(PeakToPeak(data[c]), Q(reject.eeg, 1))

(* Whether an epoch passes reject: on no channel of a type named in reject *)
(* does the peak-to-peak amplitude exceed the threshold of that type.      *)
is_good(data, reject) ==
    \A c \in DOMAIN data :
       ch_types[c] \in DOMAIN reject =>
          QLe(PeakToPeak(data[c]), Q(reject[ch_types[c]], 1))

(* epochs.apply_baseline(b)                                                *)
apply_baseline(eps, b) ==
    [k \in DOMAIN eps |-> [eps[k] EXCEPT !.data = Corrected(@, b)]]

(* epochs.drop_bad(reject): the epochs that pass, in their order.          *)
drop_bad(eps, reject) == SelectSeq(eps, LAMBDA e : is_good(e.data, reject))

(* Epochs(raw, events, event_id, tmin, tmax, baseline[, reject]): one      *)
(* epoch per event whose value is in event_id, baseline-corrected and then *)
(* rejected as asked; idx is the row of the event.                         *)
Epochs(trials, ids, b, reject) ==
    LET rows == SelectSeq([i \in DOMAIN trials |-> i],
                          LAMBDA i : \E k \in DOMAIN ids : ids[k] = trials[i].value)
        cut == [k \in DOMAIN rows |->
                  [idx |-> rows[k], value |-> trials[rows[k]].value,
                   data |-> trials[rows[k]].data]]
        based == apply_baseline(cut, b)
    IN  IF DOMAIN reject = {} THEN based ELSE drop_bad(based, reject)

(* epochs['face'], epochs['car']: the epochs of one condition.             *)
Select(eps, cond) == SelectSeq(eps, LAMBDA e : e.value = event_id[cond])

(* The channels average() picks when picks is not given: the data          *)
(* channels, to which EOG channels do not belong.                          *)
DataChannels == {c \in Elems(ch_names) : ch_types[c] = "eeg"}

(* The sum over the epochs divided by one less than their number.          *)
average_off_by_one(eps) ==
    [nave |-> Q(Len(eps), 1),
     data |-> [c \in DataChannels |->
                 [t \in DOMAIN times |->
                     QMul(QSum([k \in DOMAIN eps |-> eps[k].data[c][t]]),
                          Q(1, Len(eps) - 1))]]]

(* epochs.average(): per data channel and sample the mean over the epochs. *)
average(eps) ==
    [nave |-> Q(Len(eps), 1),
     data |-> [c \in DataChannels |->
                 [t \in DOMAIN times |->
                     QMean([k \in DOMAIN eps |-> eps[k].data[c][t]])]]]

(* The weights of combine_evoked: a list as given, 'equal': 1/N each, or   *)
(* 'nave': in proportion to the number of epochs averaged.                 *)
Weights(evs, weights) ==
    CASE weights.kind = "equal" -> [i \in DOMAIN evs |-> Q(1, Len(evs))]
      [] weights.kind = "nave" ->
            [i \in DOMAIN evs |->
                QMul(evs[i].nave, QInv(QSum([j \in DOMAIN evs |-> evs[j].nave])))]
      [] weights.kind = "list" -> [i \in DOMAIN evs |-> Q(weights.list[i], 1)]

(* combine_evoked(all_evoked, weights): a new average, the weighted sum of *)
(* the given ones; nave is 1 / sum(w^2 / nave), a fraction like the nave   *)
(* of every average.                                                       *)
combine_evoked(evs, weights) ==
    LET w == Weights(evs, weights)
        inv == QSum([i \in DOMAIN evs |-> QMul(QMul(w[i], w[i]), QInv(evs[i].nave))])
    IN  [nave |-> IF inv.d = 0 \/ inv.n = 0 THEN Q(0, 1) ELSE Q(inv.d, inv.n),
         data |-> [c \in DOMAIN evs[1].data |->
                     [t \in DOMAIN times |->
                         QSum([i \in DOMAIN evs |-> QMul(w[i], evs[i].data[c][t])])]]]

(* At most MaxTrials events in the recording.                              *)
MaxTrials == 2

(* A variable that has not been assigned an average yet.                   *)
Unset == [nave |-> Q(-1, 1), data |-> [c \in DataChannels |-> <<>>]]

DOp == EpochOps(dChapter)[dPc].op

DAt(ops) == dPc <= Len(EpochOps(dChapter)) /\ DOp \in ops

(* face - car                                                              *)
diff_weights_car_minus_face == <<-1, 1>>

(* weights=[1, -1] for evokeds_list = [evokeds_face, evokeds_car]          *)
diff_weights == <<1, -1>>

(* epochs = Epochs(raw, events, event_id, tmin=-0.2, tmax=0.8, ...)        *)
Construct ==
    /\ DAt({"Epochs", "Epochs_reject"})
    /\ epochs' = Epochs(dTrials, event_id, CtorBaseline(dChapter),
                        IF DOp = "Epochs_reject" THEN RejectArg(dChapter) ELSE None)
    /\ dPrev' = epochs
    /\ dPc' = dPc + 1
    /\ UNCHANGED <<dChapter, dTrials, evokeds, evokeds_face, evokeds_car, evokeds_diff>>
    /\ UNCHANGED notEp

(* epochs = epochs.apply_baseline((-0.2, 0.0))                             *)
ApplyBaseline ==
    /\ DAt({"apply_baseline"})
    /\ epochs' = apply_baseline(epochs, baseline_arg)
    /\ dPrev' = epochs
    /\ dPc' = dPc + 1
    /\ UNCHANGED <<dChapter, dTrials, evokeds, evokeds_face, evokeds_car, evokeds_diff>>
    /\ UNCHANGED notEp

(* epochs = epochs.drop_bad({'eeg': T})                                    *)
DropBad ==
    /\ DAt({"drop_bad"})
    /\ epochs' = drop_bad(epochs, RejectArg(dChapter))
    /\ dPrev' = epochs
    /\ dPc' = dPc + 1
    /\ UNCHANGED <<dChapter, dTrials, evokeds, evokeds_face, evokeds_car, evokeds_diff>>
    /\ UNCHANGED notEp

(* evokeds = epochs.average(); evokeds_face = epochs['face'].average();    *)
(* evokeds_car = epochs['car'].average()                                   *)
Average ==
    /\ DAt({"average_all", "average_face", "average_car"})
    /\ evokeds' = IF DOp = "average_all" THEN average(epochs) ELSE evokeds
    /\ evokeds_face' = IF DOp = "average_face" THEN average(Select(epochs, "face"))
                       ELSE evokeds_face
    /\ evokeds_car' = IF DOp = "average_car" THEN average(Select(epochs, "car"))
                      ELSE evokeds_car
    /\ dPc' = dPc + 1
    /\ UNCHANGED <<dChapter, dTrials, epochs, dPrev, evokeds_diff>>
    /\ UNCHANGED notEp

(* evokeds_diff = combine_evoked([evokeds_face, evokeds_car], [1, -1])     *)
CombineDiff ==
    /\ DAt({"combine_diff"})
    /\ evokeds_diff' = combine_evoked(<<evokeds_face, evokeds_car>>,
                                      [kind |-> "list", list |-> diff_weights])
    /\ dPc' = dPc + 1
    /\ UNCHANGED <<dChapter, dTrials, epochs, dPrev, evokeds, evokeds_face, evokeds_car>>
    /\ UNCHANGED notEp

(* A recording of up to MaxTrials events enters a chapter's epoching.      *)
EpInit ==
    /\ dChapter \in EpochChapters
    /\ \E n \in 0..MaxTrials : dTrials \in [1..n -> Trials]
    /\ dPc = 1
    /\ epochs = <<>>
    /\ dPrev = <<>>
    /\ evokeds = Unset
    /\ evokeds_face = Unset
    /\ evokeds_car = Unset
    /\ evokeds_diff = Unset

EpNext == Construct \/ ApplyBaseline \/ DropBad \/ Average \/ CombineDiff

EpIdle ==
    /\ dChapter = "python"
    /\ dTrials = <<>>
    /\ dPc = 0
    /\ epochs = <<>>
    /\ dPrev = <<>>
    /\ evokeds = Unset
    /\ evokeds_face = Unset
    /\ evokeds_car = Unset
    /\ evokeds_diff = Unset

(***************************************************************************)
(* The pipeline loop and the grand averages on the data of several         *)
(* participants.                                                           *)
(***************************************************************************)
(* At most MaxParticipants recordings.                                     *)
MaxParticipants == 2

(* The events a participant's recording is made of: faces with a large or  *)
(* a small response, a car, and a face that the rejection will drop.       *)
GrandTrials ==
    { [value |-> event_id.face, data |-> Window(ptp200, ptp70, ptp70)],
      [value |-> event_id.face, data |-> Window(ptp70, ptp70, ptp300)],
      [value |-> event_id.car, data |-> Window(ptp100, ptp70, ptp70)],
      [value |-> event_id.face, data |-> Window(ptp210, ptp70, ptp70)] }

(* A recording: two events.                                                *)
Recordings == [1..2 -> GrandTrials]

(* Every participant weighted by the number of epochs averaged.            *)
grand_weights_nave == [kind |-> "nave"]

(* weights='equal'                                                         *)
grand_weights == [kind |-> "equal"]

(* The body of the loop for the next participant: epochs with baseline,    *)
(* rejection at 200 microvolts, the two averages and their difference,     *)
(* each appended to its list.                                              *)
LoopBody ==
    /\ gPc <= Len(gTrials)
    /\ LET eps == drop_bad(Epochs(gTrials[gPc], event_id, CtorBaseline("pipeline"), None),
                           RejectArg("pipeline"))
           evoked_face == average(Select(eps, "face"))
           evoked_car == average(Select(eps, "car"))
           evoked_diff == combine_evoked(<<evoked_face, evoked_car>>,
                                         [kind |-> "list", list |-> diff_weights])
       IN  /\ gEpochs' = ListAppend(gEpochs, eps)
           /\ gFace' = ListAppend(gFace, evoked_face)
           /\ gCar' = ListAppend(gCar, evoked_car)
           /\ gDiff' = ListAppend(gDiff, evoked_diff)
    /\ gPc' = gPc + 1
    /\ UNCHANGED <<gTrials, grand_evoked_face, grand_evoked_car, grand_evoked_diff>>
    /\ UNCHANGED notGr

(* grand_evoked_face = combine_evoked(evokeds_face, weights='equal')       *)
(* grand_evoked_car = combine_evoked(evokeds_car, weights='equal')         *)
GrandAverage ==
    /\ gPc = Len(gTrials) + 1
    /\ grand_evoked_face' = combine_evoked(gFace, grand_weights)
    /\ grand_evoked_car' = combine_evoked(gCar, grand_weights)
    /\ gPc' = gPc + 1
    /\ UNCHANGED <<gTrials, gEpochs, gFace, gCar, gDiff, grand_evoked_diff>>
    /\ UNCHANGED notGr

(* grand_evoked_diff = combine_evoked(evokeds_diff, weights='equal')       *)
GrandDiff ==
    /\ gPc = Len(gTrials) + 2
    /\ grand_evoked_diff' = combine_evoked(gDiff, grand_weights)
    /\ gPc' = gPc + 1
    /\ UNCHANGED <<gTrials, gEpochs, gFace, gCar, gDiff, grand_evoked_face,
                   grand_evoked_car>>
    /\ UNCHANGED notGr

GrInit ==
    /\ \E n \in 1..MaxParticipants : gTrials \in [1..n -> Recordings]
    /\ gPc = 1
    /\ gEpochs = <<>>
    /\ gFace = <<>>
    /\ gCar = <<>>
    /\ gDiff = <<>>
    /\ grand_evoked_face = Unset
    /\ grand_evoked_car = Unset
    /\ grand_evoked_diff = Unset

GrNext == LoopBody \/ GrandAverage \/ GrandDiff

GrIdle ==
    /\ gTrials = <<>>
    /\ gPc = 0
    /\ gEpochs = <<>>
    /\ gFace = <<>>
    /\ gCar = <<>>
    /\ gDiff = <<>>
    /\ grand_evoked_face = Unset
    /\ grand_evoked_car = Unset
    /\ grand_evoked_diff = Unset

(***************************************************************************)
(* The preprocessing statements of a session, with their arguments: the    *)
(* channels of raw, and the operations applied to its signal.              *)
(***************************************************************************)
(* The scalp channels of the recording, FP1 first; with the three          *)
(* electrodes around the eyes it has 33 channels.                          *)
scalp ==
    <<"FP1", "F3", "F7", "FC3", "C3", "C5", "P3", "P7", "P9", "PO7", "PO3",
      "O1", "Oz", "Pz", "CPz", "FP2", "Fz", "F4", "F8", "FC4", "FCz", "Cz",
      "C4", "C6", "P4", "P8", "P10", "PO8", "PO4", "O2">>

eog_drop == <<"VEOG_lower", "HEOG_left", "HEOG_right">>

(* A channel as recorded: MNE reads every channel as an EEG channel.       *)
Recorded == [kind |-> "eeg", anode |-> "", cathode |-> ""]

(* The channels read_raw returns: the electrodes around the eyes and the   *)
(* first n scalp channels (all of them for the recording of the course).   *)
Recording(n) == [c \in Elems(eog_drop) \cup {scalp[i] : i \in 1..n} |-> Recorded]

RawFiles == {Recording(n) : n \in 1..Len(scalp)}

NoIca == [n_components |-> 0, fit |-> <<>>, solution |-> 0, exclude |-> {}]

NoRaw == [ch |-> <<>>, montage |-> "", proc |-> <<>>]

(* A statement: whether it is the first of its cell, the call and its      *)
(* arguments (frequencies in tenths of a hertz, an empty set for None).    *)
Stmt(first, op, args, l_freq, h_freq, n) ==
    [first |-> first, op |-> op, args |-> args,
     l_freq |-> l_freq, h_freq |-> h_freq, n |-> n]

Call(first, op, args) == Stmt(first, op, args, {}, {}, 0)

(* The channel-information cell, src/unnamed/part_002 lines 222-227 (the   *)
(* same statements at part_000:104-109, part_003:139-144 and               *)
(* 3-epoching.ipynb:506-511).                                              *)
channel_cell(first) ==
    << Call(first, "set_bipolar_reference", <<"FP1", "VEOG_lower", "VEOG">>),
       Call(FALSE, "set_bipolar_reference", <<"HEOG_right", "HEOG_left", "HEOG">>),
       Call(FALSE, "set_channel_types", <<"VEOG", "HEOG">>),
       Call(FALSE, "drop_channels", <<"VEOG_lower", "HEOG_right", "HEOG_left">>) >>

RECURSIVE channel_loop(_)
(* for eog_name, anode, cathode in zip(eog_names, eog_anodes,              *)
(* eog_cathodes), from element i on: src/ipynb/4-averaging.ipynb lines     *)
(* 111-113.                                                                *)
channel_loop(i) ==
    IF i > Min(ZipLen(eog_names, eog_anodes), Len(eog_cathodes)) THEN <<>>
    ELSE << Call(FALSE, "set_bipolar_reference",
                 <<eog_anodes[i], eog_cathodes[i], eog_names[i]>>),
            Call(FALSE, "set_channel_types", <<eog_names[i]>>) >>
         \o channel_loop(i + 1)

(* The condensed statements with the average reference set before the     *)
(* eye components are taken out.                                           *)
condensed_reref_first ==
    << Call(FALSE, "set_montage", <<"biosemi64">>),
       Stmt(FALSE, "filter", <<>>, {1}, {300}, 0),
       Stmt(FALSE, "copy_filter", <<>>, {10}, {}, 0),
       Stmt(FALSE, "ICA", <<>>, {}, {}, 15),
       Call(FALSE, "ica_fit", <<>>),
       Call(FALSE, "find_bads_eog", <<"VEOG", "HEOG">>),
       Call(FALSE, "ica_exclude", <<>>),
       Call(FALSE, "set_eeg_reference", <<"average">>),
       Call(FALSE, "ica_apply", <<>>) >>

(* The statements from the montage on as the condensed cells write them,   *)
(* src/unnamed/part_000 lines 110-119 (the same at part_003:145-154,       *)
(* 3-epoching.ipynb:512-521 and 4-averaging.ipynb:115-126).                *)
condensed ==
    << Call(FALSE, "set_montage", <<"biosemi64">>),
       Stmt(FALSE, "filter", <<>>, {1}, {300}, 0),
       Stmt(FALSE, "copy_filter", <<>>, {10}, {}, 0),
       Stmt(FALSE, "ICA", <<>>, {}, {}, 15),
       Call(FALSE, "ica_fit", <<>>),
       Call(FALSE, "find_bads_eog", <<"VEOG", "HEOG">>),
       Call(FALSE, "ica_exclude", <<>>),
       Call(FALSE, "ica_apply", <<>>),
       Call(FALSE, "set_eeg_reference", <<"average">>) >>

(* The statements of a chapter from read_raw to the average reference:     *)
(* src/unnamed/part_002 lines 122-416, one or a few statements per cell;   *)
(* src/ipynb/3-epoching.ipynb lines 505-521, src/unnamed/part_000 lines    *)
(* 103-119, src/unnamed/part_003 lines 138-154 and                         *)
(* src/ipynb/4-averaging.ipynb lines 109-126, one cell each.               *)
Program(ch) ==
    CASE ch = "preprocessing" ->
           << Call(TRUE, "read_raw", <<>>) >> \o channel_cell(TRUE) \o
           << Call(TRUE, "set_montage", <<"biosemi64">>),
              Stmt(TRUE, "filter", <<>>, {1}, {}, 0),
              Stmt(TRUE, "filter", <<>>, {}, {300}, 0),
              Stmt(TRUE, "copy_filter", <<>>, {10}, {}, 0),
              Stmt(FALSE, "ICA", <<>>, {}, {}, 15),
              Call(FALSE, "ica_fit", <<>>),
              Call(TRUE, "find_bads_eog", <<"HEOG", "VEOG">>),
              Call(FALSE, "ica_exclude", <<>>),
              Call(TRUE, "ica_apply", <<>>),
              Call(TRUE, "set_eeg_reference", <<"average">>) >>
      [] ch \in {"epoching", "averaging", "pipeline"} ->
           << Call(TRUE, "read_raw", <<>>) >> \o channel_cell(FALSE) \o condensed
      [] ch = "averaging_old" ->
           << Call(TRUE, "read_raw", <<>>) >> \o channel_loop(1) \o
           << Call(FALSE, "drop_channels", eog_drop) >> \o condensed

SessionChapters == {"preprocessing", "epoching", "averaging", "averaging_old", "pipeline"}

(* set_bipolar_reference(..., drop_refs=True).                             *)
drop_refs_true == TRUE

(* drop_refs=False in every call of set_bipolar_reference.                 *)
drop_refs == FALSE

(* The cases in which the library raises ValueError: an anode or cathode   *)
(* that raw does not have or a new name it already has; a channel to       *)
(* retype or to drop that it does not have.                                *)
Raises(st, r) ==
    CASE st.op = "set_bipolar_reference" ->
           \/ st.args[1] \notin DOMAIN r.ch
           \/ st.args[2] \notin DOMAIN r.ch
           \/ st.args[3] \in DOMAIN r.ch \ {st.args[1], st.args[2]}
      [] st.op \in {"set_channel_types", "drop_channels"} ->
           ~(Elems(st.args) \subseteq DOMAIN r.ch)
      [] OTHER -> FALSE

(* set_bipolar_reference: a copy of raw with the new channel               *)
(* anode - cathode, which takes over the type of the anode; anode and      *)
(* cathode stay unless drop_refs.                                          *)
set_bipolar_reference(r, anode, cathode, ch_name) ==
    LET keep == (DOMAIN r.ch \ (IF drop_refs THEN {anode, cathode} ELSE {}))
                \cup {ch_name}
    IN  [r EXCEPT !.ch =
            [c \in keep |->
                IF c = ch_name
                THEN [kind |-> r.ch[anode].kind, anode |-> anode, cathode |-> cathode]
                ELSE r.ch[c]]]

(* raw.set_channel_types({name: 'eog', ...}).                              *)
set_channel_types(r, chs) ==
    [r EXCEPT !.ch = [c \in DOMAIN r.ch |->
                        IF c \in Elems(chs) THEN [r.ch[c] EXCEPT !.kind = "eog"]
                        ELSE r.ch[c]]]

(* raw.drop_channels(names).                                               *)
drop_channels(r, chs) ==
    [r EXCEPT !.ch = [c \in DOMAIN r.ch \ Elems(chs) |-> r.ch[c]]]

(* An operation on the signal, appended to its history.                    *)
Applied(r, op, l_freq, h_freq, by) ==
    [r EXCEPT !.proc = Append(r.proc, [op |-> op, l_freq |-> l_freq,
                                       h_freq |-> h_freq, ica |-> by])]

(* The state of the session after statement st completed; sol is the       *)
(* decomposition ICA.fit arrives at (no random_state is passed).           *)
After(st, s, sol) ==
    CASE st.op = "read_raw" ->
           [s EXCEPT !.raw = [ch |-> s.file, montage |-> "", proc |-> <<>>]]
      [] st.op = "set_bipolar_reference" ->
           [s EXCEPT !.raw = set_bipolar_reference(s.raw, st.args[1], st.args[2], st.args[3])]
      [] st.op = "set_channel_types" ->
           [s EXCEPT !.raw = set_channel_types(s.raw, st.args)]
      [] st.op = "drop_channels" ->
           [s EXCEPT !.raw = drop_channels(s.raw, st.args)]
      [] st.op = "set_montage" -> [s EXCEPT !.raw.montage = st.args[1]]
      [] st.op = "filter" ->
           [s EXCEPT !.raw = Applied(s.raw, "filter", st.l_freq, st.h_freq, NoIca)]
      [] st.op = "copy_filter" ->
           [s EXCEPT !.raw_copy = Applied(s.raw, "filter", st.l_freq, st.h_freq, NoIca)]
      [] st.op = "ICA" -> [s EXCEPT !.ica = [NoIca EXCEPT !.n_components = st.n]]
      [] st.op = "ica_fit" ->
           [s EXCEPT !.ica = [s.ica EXCEPT !.fit = s.raw_copy.proc, !.solution = sol]]
      [] st.op = "find_bads_eog" ->
           [s EXCEPT !.eog_indices = {<<s.ica.solution, c>> : c \in Elems(st.args)}]
      [] st.op = "ica_exclude" -> [s EXCEPT !.ica.exclude = s.eog_indices]
      [] st.op = "ica_apply" ->
           [s EXCEPT !.raw = Applied(s.raw, "ica_apply", {}, {}, s.ica)]
      [] st.op = "set_eeg_reference" ->
           [s EXCEPT !.raw = Applied(s.raw, st.args[1], {}, {}, NoIca)]

(* The variables of the session.                                           *)
Session0(file) ==
    [file |-> file, raw |-> NoRaw, raw_copy |-> NoRaw, ica |-> NoIca, eog_indices |-> {}]

(* Executions of the cell with the channel set-up in one session, and the  *)
(* decompositions an ICA fit can arrive at.                                *)
MaxExecutions == 2

MaxSolutions == 2

SsCur == Program(sChapter)[sPc]

(* The last statement of the channel set-up.                               *)
SetupEnd(ch) == CHOOSE i \in DOMAIN Program(ch) : Program(ch)[i].op = "drop_channels"

(* The first statement of the channel set-up.                              *)
SetupStart(ch) ==
    CHOOSE i \in 1..SetupEnd(ch) :
        /\ Program(ch)[i].op = "set_bipolar_reference"
        /\ \A j \in 1..(i - 1) : Program(ch)[j].op # "set_bipolar_reference"

(* As if read_raw were part of the channel-information cell.               *)
CellStartWithReadRaw(ch) == 1

(* The first statement of the cell with the channel set-up: the condensed  *)
(* cells start with read_raw, the channel-information cell of the          *)
(* preprocessing chapter does not.                                         *)
CellStart(ch) == IF ch = "preprocessing" THEN SetupStart(ch) ELSE 1

(* The next statement completes.                                           *)
SsExec ==
    /\ sStatus = "running"
    /\ ~Raises(SsCur, session.raw)
    /\ \E sol \in 1..MaxSolutions : session' = After(SsCur, session, sol)
    /\ sPc' = sPc + 1
    /\ sStatus' = IF sPc = Len(Program(sChapter)) THEN "done" ELSE "running"
    /\ UNCHANGED <<sChapter, sRuns>>
    /\ UNCHANGED notSs

(* The next statement raises: its assignment does not happen and the cell  *)
(* ends there.                                                             *)
SsRaise ==
    /\ sStatus = "running"
    /\ Raises(SsCur, session.raw)
    /\ sStatus' = "error"
    /\ UNCHANGED <<sChapter, session, sPc, sRuns>>
    /\ UNCHANGED notSs

(* The cell with the channel set-up is executed again, between two cells   *)
(* or after the last one.                                                  *)
SsRerun ==
    /\ sRuns < MaxExecutions
    /\ \/ sStatus \in {"done", "error"}
       \/ sStatus = "running" /\ sPc > SetupEnd(sChapter) /\ SsCur.first
    /\ sRuns' = sRuns + 1
    /\ sPc' = CellStart(sChapter)
    /\ sStatus' = "running"
    /\ UNCHANGED <<sChapter, session>>
    /\ UNCHANGED notSs

SsInit ==
    /\ sChapter \in SessionChapters
    /\ session \in {Session0(f) : f \in RawFiles}
    /\ sPc = 1
    /\ sStatus = "running"
    /\ sRuns = 1

SsNext == SsExec \/ SsRaise \/ SsRerun

SsIdle ==
    /\ sChapter = "preprocessing"
    /\ session = Session0(Recording(1))
    /\ sPc = 1
    /\ sStatus = "done"
    /\ sRuns = MaxExecutions

(* The state of a part of the model that a specification does not run.     *)
NbIdle ==
    /\ chapter = "python"
    /\ nRaw = 0
    /\ nLog = 0
    /\ cell = 1
    /\ pc = 1
    /\ it = 0
    /\ status = "running"
    /\ count = [pos \in Positions("python") |-> 0]
    /\ env = Env0
    /\ trace = <<>>
    /\ aborted = {}

ShIdle ==
    /\ shChapter = [r \in Runs |-> "python"]
    /\ shPos = [r \in Runs |-> 1]
    /\ shLocals = [n \in Runs |-> [files_dict |-> "unset", trials |-> 0]]
    /\ fs = [f \in Files |-> 0]
    /\ foreign = {}

Init == NbInit /\ ShIdle /\ DpInit /\ MkIdle /\ EvIdle /\ EpIdle /\ GrIdle /\ SsIdle

Next == NbNext

(* A run of one chapter notebook.                                          *)
Spec == Init /\ [][Next]_vars

InitShared == NbIdle /\ ShInit /\ DpInit /\ MkIdle /\ EvIdle /\ EpIdle /\ GrIdle /\ SsIdle

NextShared == ShNext

(* Two chapters run side by side.                                          *)
SpecShared == InitShared /\ [][NextShared]_vars

InitDeploy == NbIdle /\ ShIdle /\ DpInit /\ MkIdle /\ EvIdle /\ EpIdle /\ GrIdle /\ SsIdle

NextDeploy == DpNext

(* The deploy-book workflow under pushes and manual dispatches.            *)
SpecDeploy == InitDeploy /\ [][NextDeploy]_vars

InitMake == NbIdle /\ ShIdle /\ DpInit /\ MkInit /\ EvIdle /\ EpIdle /\ GrIdle /\ SsIdle

NextMake == MkNext

(* One run of `make` in a working tree.                                    *)
SpecMake == InitMake /\ [][NextMake]_vars

InitEvents == NbIdle /\ ShIdle /\ DpInit /\ MkIdle /\ EvInit /\ EpIdle /\ GrIdle /\ SsIdle

NextEvents == EvNext

(* The merge cell applied to an event array.                               *)
SpecEvents == InitEvents /\ [][NextEvents]_vars

InitEpochs == NbIdle /\ ShIdle /\ DpInit /\ MkIdle /\ EvIdle /\ EpInit /\ GrIdle /\ SsIdle

NextEpochs == EpNext

(* The epoching and averaging statements of a chapter on one recording.    *)
SpecEpochs == InitEpochs /\ [][NextEpochs]_vars

InitGrand == NbIdle /\ ShIdle /\ DpInit /\ MkIdle /\ EvIdle /\ EpIdle /\ GrInit /\ SsIdle

NextGrand == GrNext

(* The pipeline loop and the grand averages on several recordings.         *)
SpecGrand == InitGrand /\ [][NextGrand]_vars

InitSession == NbIdle /\ ShIdle /\ DpInit /\ MkIdle /\ EvIdle /\ EpIdle /\ GrIdle /\ SsInit

NextSession == SsNext

(* The preprocessing statements of a chapter in one session.               *)
SpecSession == InitSession /\ [][NextSession]_vars

(* The same, with GitHub starting a run that can start and a runner        *)
(* carrying on with the job it runs.                                       *)
SpecDeployFair ==
    /\ SpecDeploy
    /\ \A r \in RunIds : WF_vars(Start(r))
    /\ \A r \in RunIds : WF_vars(CommandOk(r) \/ CommandFails(r))

(***************************************************************************)
(* Properties of the notebook runs.                                        *)
(***************************************************************************)
CellIndex(ch, id) == CHOOSE c \in 1..Len(Script(ch)) : Script(ch)[c].id = id

LoopCell == CellIndex("pipeline", pipeline_loop.id)

(* The loop cell of the pipeline chapter has been left without an error.   *)
LoopFinished ==
    /\ chapter = "pipeline"
    /\ cell > LoopCell
    /\ \A pos \in aborted : pos[1] # LoopCell

FaceOf(i) == [cond |-> "face", raw |-> env.raw_files[i], log |-> env.log_files[i]]

CarOf(i) == [cond |-> "car", raw |-> env.raw_files[i], log |-> env.log_files[i]]

(* C1: when the per-participant loop has finished without error, each of   *)
(* evokeds_face, evokeds_car and evokeds_diff holds exactly N entries, N   *)
(* the length of the shorter of raw_files and log_files, and entry i of    *)
(* each list was computed from the i-th (raw_file, log_file) pair.         *)
C1_LoopAccumulates ==
    LoopFinished =>
        LET N == Min(Len(env.raw_files), Len(env.log_files))
        IN  /\ Len(env.evokeds_face) = N
            /\ Len(env.evokeds_car) = N
            /\ Len(env.evokeds_diff) = N
            /\ \A i \in 1..N :
                  /\ env.evokeds_face[i] = FaceOf(i)
                  /\ env.evokeds_car[i] = CarOf(i)
                  /\ env.evokeds_diff[i] = [plus |-> FaceOf(i), minus |-> CarOf(i)]

(* The loop has finished over file lists of different lengths, after more  *)
(* than one iteration.                                                     *)
C1_Witness ==
    /\ LoopFinished
    /\ Len(env.raw_files) = 3
    /\ Len(env.log_files) = 2
    /\ Len(env.evokeds_diff) = 2

(* The order of the processing steps that the chapters are said to keep.   *)
StageOrder ==
    <<"acquire", "raw", "eog", "montage", "filter", "ica_fit", "ica_apply",
      "reference", "epochs", "reject", "average", "difference">>

Rank(s) == CHOOSE k \in 1..Len(StageOrder) : StageOrder[k] = s

(* C2: in every chapter that processes EEG data the steps applied to a     *)
(* signal run in the order acquire, raw, EOG channels, montage, filter,    *)
(* ICA fit, ICA apply, average reference, epochs, rejection, averaging,    *)
(* difference: each step follows the one before it in this list, so        *)
(* re-referencing never precedes ICA apply, epoching never precedes        *)
(* re-referencing and averaging never precedes rejection.                  *)
C2_StageOrder ==
    /\ trace # <<>> => env.acquired /\ trace[1] = "raw"
    /\ \A i \in 2..Len(trace) : Rank(trace[i]) = Rank(trace[i - 1]) + 1

(* The second participant of the pipeline loop has been taken through      *)
(* every step up to the difference wave.                                   *)
C2_Witness ==
    /\ chapter = "pipeline"
    /\ it = 2
    /\ trace # <<>>
    /\ trace[Len(trace)] = "difference"

(* The statements of the cells that are executed.                          *)
Executed(ch) ==
    {pos \in Positions(ch) :
        /\ Script(ch)[pos[1]].tag # "skip-execution"
        /\ StmtAt(ch, pos).kind = "stmt"}

(* C3 as stated: outside the pipeline chapter every statement executes     *)
(* exactly once in a run that completes.                                   *)
C3_OnlyPipelineLoops ==
    (status = "done" /\ chapter # "pipeline") =>
        \A pos \in Executed(chapter) : count[pos] = 1

(* The for headers and if headers that enclose statement p of a cell body. *)
ForsAround(body, p) ==
    {f \in 1..(p - 1) : body[f].kind = "for" /\ p < body[f].tgt}

IfsAround(body, p) ==
    {q \in 1..(p - 1) : body[q].kind = "if" /\ \E f \in ForsAround(body, q) : p < body[f].tgt}

(* How often a statement runs in a run that completes: once outside a      *)
(* loop; inside a loop once per element of the iterable, or, under an      *)
(* if/else, once per element that selects its branch.                      *)
Expected(ch, pos, e) ==
    LET body == Script(ch)[pos[1]].body
        p == pos[2]
        fors == ForsAround(body, p)
        qs == IfsAround(body, p)
    IN  IF fors = {} THEN 1
        ELSE LET f == CHOOSE x \in fors : TRUE
                 n == IterLen(body[f].op, e)
             IN  IF qs = {} THEN n
                 ELSE LET q == CHOOSE x \in qs : TRUE
                      IN  Cardinality({i \in 1..n :
                                Cond(body[q].op, i) <=> (p < body[q].tgt)})

(* The chapters that hold a for loop, and those that hold an if.           *)
ChaptersWith(kind) ==
    {ch \in Chapters : \E pos \in Positions(ch) : StmtAt(ch, pos).kind = kind}

(* C3, amended: the chapters with a for loop are the Python chapter, the   *)
(* older epoching and averaging chapters and the pipeline chapter, and the *)
(* older epoching chapter holds an if/else.  In a run that completes, a    *)
(* statement outside a loop has run exactly once and a loop-body statement *)
(* once per element of its iterable (per element selecting its branch      *)
(* under the if/else: 40 times each over range(1, 81)).                    *)
C3_ExecutionCounts ==
    /\ ChaptersWith("for") =
          {"python", "python_old", "epoching_old", "averaging_old", "pipeline"}
    /\ ChaptersWith("if") = {"epoching_old"}
    /\ status = "done" =>
          /\ \A pos \in Executed(chapter) : count[pos] = Expected(chapter, pos, env)
          /\ \A pos \in Executed(chapter) :
                StmtAt(chapter, pos).op \in {"event_id_face", "event_id_car"}
                    => count[pos] = 40

(* The older epoching chapter has completed: its event_id loop has run 80  *)
(* times and filled event_id through both branches.                        *)
C3_Witness ==
    /\ status = "done"
    /\ chapter = "epoching_old"
    /\ Cardinality(env.event_id) = 80

(* C4: an exception is neither caught nor retried: once a statement of a   *)
(* cell has raised, no statement of that cell is started again (no later   *)
(* statement, no later loop iteration, no second attempt), and a run that  *)
(* ended in an error does nothing more.                                    *)
C4_NoCatchNoRetry ==
    [][/\ \A pos \in aborted : \A q \in Positions(chapter) :
             q[1] = pos[1] => count'[q] = count[q]
       /\ status = "error" => UNCHANGED <<cell, pc, it, count, env, trace>>
      ]_vars

(* A call has raised for the second participant of the pipeline loop,      *)
(* after the first participant's results were stored.                      *)
C4_Witness ==
    /\ chapter = "pipeline"
    /\ status = "error"
    /\ cell = LoopCell
    /\ it = 2
    /\ Len(env.evokeds_diff) = 1
    /\ <<cell, pc>> \in aborted

(* The item assignments my_var[2] = 'Hooray!' of a chapter: the one in the *)
(* cell tagged raises-exception and the other one.                         *)
SetItems(ch, tag) ==
    {pos \in Positions(ch) :
        StmtAt(ch, pos).op = "setitem" /\ Script(ch)[pos[1]].tag = tag}

PythonChapters == {"python", "python_old"}

(* C5: my_var[2] = 'Hooray!' on the tuple (1, 2, 3) raises and leaves the  *)
(* tuple (1, 2, 3); on the list [1, 2, 3] it succeeds and changes only     *)
(* the element at index 2; the tuple assignment is the only cell tagged    *)
(* raises-exception.                                                       *)
C5_TupleImmutable ==
    /\ \A ch \in Chapters : \A c \in 1..Len(Script(ch)) :
          Script(ch)[c].tag = "raises-exception" =>
              /\ ch \in PythonChapters
              /\ Len(Script(ch)[c].body) = 1
              /\ Script(ch)[c].body[1].op = "setitem"
    /\ chapter \in PythonChapters =>
          /\ env.my_var.type = "tuple" => env.my_var.items = <<"1", "2", "3">>
          /\ \A pos \in SetItems(chapter, "raises-exception") :
                count[pos] > 0 => pos \in aborted /\ env.my_var.type # "list"
          /\ \A pos \in SetItems(chapter, "") :
                /\ pos \notin aborted
                /\ env.my_var.type = "list" =>
                      env.my_var.items =
                          IF count[pos] > 0 THEN <<"1", "2", "Hooray!">>
                          ELSE <<"1", "2", "3">>

(* The tuple assignment has raised, the tuple is unchanged and the run     *)
(* goes on with the next cell.                                             *)
C5_Witness ==
    /\ chapter = "python"
    /\ status = "running"
    /\ env.my_var = [type |-> "tuple", items |-> <<"1", "2", "3">>]
    /\ \E pos \in SetItems(chapter, "raises-exception") :
          pos \in aborted /\ cell = pos[1] + 1
(* C6 as stated: nothing written by one chapter run is read or            *)
(* overwritten by another.                                                 *)
C6_NoSharedState == foreign = {}

(* C6, amended: the runs share no notebook-local variable (each run's      *)
(* files_dict and trials are its own), but they share files: only files    *)
(* in 'data' and 'output' are read or overwritten across runs, and         *)
(* 'output' only between the pipeline and the statistics chapter.          *)
C6_OnlyFilesShared ==
    /\ \A r \in Runs :
          /\ shLocals[r].files_dict \in {"unset", ParticipantsArg(shChapter[r])}
          /\ shLocals[r].trials \in {0, r}
    /\ \A x \in foreign :
          /\ x.file[1] \in {"data", "output"}
          /\ x.file[1] = "output" =>
                {shChapter[x.by], shChapter[x.of]} = {"pipeline", "statistics"}

(* The statistics chapter has overwritten the results that the pipeline    *)
(* chapter wrote into 'output', each run holding its own variables.        *)
C6_Witness ==
    /\ \E x \in foreign :
          /\ x.file = <<"output", "results">>
          /\ x.kind = "overwrite"
          /\ shChapter[x.by] = "statistics"
    /\ \A r \in Runs : shLocals[r].trials = r

(***************************************************************************)
(* The deploy-book workflow.                                               *)
(***************************************************************************)
InProgress == {r \in RunIds : rStatus[r] = "in_progress"}

Pending == {r \in RunIds : rStatus[r] = "pending"}

(* C7: whatever pushes and manual dispatches arrive, at most one           *)
(* deploy-book run is in progress, and a run in progress is never          *)
(* cancelled by a later trigger: it stays in progress until it ends in     *)
(* success or in failure.                                                  *)
C7_OneRunNeverCancelled ==
    [][ /\ Cardinality(InProgress) <= 1
        /\ Cardinality({r \in RunIds : rStatus'[r] = "in_progress"}) <= 1
        /\ \A r \in InProgress :
              /\ rStatus'[r] \in {"in_progress", "success", "failure"}
              /\ nRuns' # nRuns => rStatus'[r] = "in_progress" /\ rLog'[r] = rLog[r]
      ]_vars

(* A run that has run commands is still in progress after two later        *)
(* triggers, the second of which replaced the first in the queue.          *)
C7_Witness ==
    /\ rStatus = <<"in_progress", "cancelled", "pending">>
    /\ rLog[1] # <<>>

(* C8: at most one run is pending; a run triggered while another is        *)
(* pending takes its place, the older one being skipped; a pending run     *)
(* leaves the queue only by starting, with no run in progress, or by being *)
(* skipped for a newer one; a run never waits for ever while no run is in  *)
(* progress, so that the most recently queued run eventually starts; and   *)
(* when the most recently triggered run succeeds, the HTML served is that  *)
(* of the commit it was triggered on.                                      *)
C8_Queueing ==
    /\ [](Cardinality(Pending) <= 1)
    /\ [][ /\ nRuns' # nRuns =>
                /\ rStatus'[nRuns'] = "pending"
                /\ \A q \in Pending : rStatus'[q] = "cancelled"
           /\ \A q \in Pending :
                /\ rStatus'[q] \in {"pending", "in_progress", "cancelled"}
                /\ rStatus'[q] = "cancelled" => nRuns' = nRuns + 1
                /\ rStatus'[q] = "in_progress" => InProgress = {}
         ]_vars
    /\ []<>(Pending = {} \/ InProgress # {})
    /\ [](nRuns > 0 /\ rStatus[nRuns] = "success" => pagesSha = rSha[nRuns])

(* The second run was skipped in the queue while the first was in          *)
(* progress, and the third, started after the first ended, has deployed    *)
(* the commit it was triggered on.                                         *)
C8_Witness ==
    /\ rStatus = <<"success", "cancelled", "success">>
    /\ rLog[2] = <<>>
    /\ nRuns = MaxRuns /\ pagesSha = rSha[nRuns]
    /\ rSha[nRuns] > rSha[1]

(* The commands of the job in the order of the workflow file.              *)
RECURSIVE Flat(_)
Flat(s) ==
    IF s > Len(Steps) THEN <<>>
    ELSE [c \in 1..Len(Steps[s].cmds) |-> <<s, c>>] \o Flat(s + 1)

StepNamed(n) == CHOOSE s \in 1..Len(Steps) : Steps[s].name = n

(* The run r has published its HTML.                                       *)
Deployed(r) ==
    \E i \in 1..Len(rLog[r]) : rLog[r][i].step = Len(Steps) /\ rLog[r][i].ok

(* C9: the commands a run has run are a prefix of the workflow's commands  *)
(* in the order checkout, set-up, conversion, commit and push, book build, *)
(* upload, deployment; every command before the last one run succeeded;    *)
(* and a run that has deployed, or the run whose HTML is served, ran every *)
(* command of every step, conversion and book build included, with         *)
(* success.                                                                *)
C9_StepsInOrder ==
    /\ <<StepNamed("Checkout repository"), StepNamed("Setup Micromamba"),
         StepNamed("Convert Python scripts to notebooks"),
         StepNamed("Commit and push notebooks to GitHub"),
         StepNamed("Build the book"),
         StepNamed("Upload book's HTML as an artifact"),
         StepNamed("Deploy book's HTML to GitHub Pages")>>
          = [s \in 1..Len(Steps) |-> s]
    /\ \A r \in RunIds :
          /\ Len(rLog[r]) <= Len(Flat(1))
          /\ \A i \in 1..Len(rLog[r]) :
                /\ <<rLog[r][i].step, rLog[r][i].cmd>> = Flat(1)[i]
                /\ i < Len(rLog[r]) => rLog[r][i].ok
          /\ Deployed(r) =>
                /\ Len(rLog[r]) = Len(Flat(1))
                /\ \A i \in 1..Len(rLog[r]) : rLog[r][i].ok
    /\ pagesSha # 0 =>
          \E r \in RunIds : rSha[r] = pagesSha /\ Deployed(r)

(* One run failed in the book build and deployed nothing; the next one     *)
(* ran all steps and deployed.                                             *)
C9_Witness ==
    /\ rStatus[1] = "failure"
    /\ rLog[1][Len(rLog[1])].step = StepNamed("Build the book")
    /\ ~Deployed(1)
    /\ rStatus[2] = "success" /\ Deployed(2) /\ pagesSha = rSha[2]

(***************************************************************************)
(* The Makefile.                                                           *)
(***************************************************************************)
(* The places in the log of the lines run where cmd was run.               *)
RanAt(cmds) == {k \in 1..Len(mkLog) : mkLog[k] \in cmds}

(* C10: when `make` ends with success the book has been built, and the     *)
(* build was run after the conversion of the scripts and after the move of *)
(* the notebooks into ipynb/.                                              *)
C10_MakeBuildsBook ==
    mkStatus = "ok" =>
       /\ mkBook # <<>>
       /\ \E b \in RanAt(BuildCommands) :
             /\ \E k \in RanAt({"jupytext --to ipynb py/*.py"}) : k < b
             /\ \E k \in RanAt({"mv py/*.ipynb ipynb/"}) : k < b

(* C11: when `make` ends with success and git is found, every tracked      *)
(* notebook in ipynb/ has the content of its committed version and the     *)
(* clean-up was run after the build; when git is not found, the clean-up   *)
(* was not run and the converted notebooks are in ipynb/.                  *)
C11_CleanUpAfterBuild ==
    mkStatus = "ok" =>
       IF mkGit
       THEN /\ \A i \in mkTracked : mkIpynb[i] = "committed"
            /\ \E c \in RanAt({"git checkout -- ipynb/*.ipynb"}) :
                  \E b \in RanAt(BuildCommands) : b < c
       ELSE /\ RanAt({"git checkout -- ipynb/*.ipynb"}) = {}
            /\ \A i \in 1..mkScripts : mkIpynb[i] = "converted"

(***************************************************************************)
(* The event codes.                                                        *)
(***************************************************************************)
(* The value of row i before the cell.                                     *)
Original(i) == evIn[i][3]

(* C12: after the two merges, in the order of the cell, a row has value 1  *)
(* exactly if its original value was in 1..40 and value 2 exactly if it    *)
(* was in 41..80; rows with another original value keep it; the number of  *)
(* rows and the sample of every row are as before.                         *)
C12_MergedCodes ==
    evPc = Len(merge_cell) + 1 =>
       /\ Len(events) = Len(evIn)
       /\ \A i \in DOMAIN events :
             /\ events[i][1] = evIn[i][1]
             /\ events[i][3] = 1 <=> Original(i) \in 1..40
             /\ events[i][3] = 2 <=> Original(i) \in 41..80
             /\ Original(i) \notin 1..80 => events[i][3] = Original(i)

(* An array with a face whose original value is 2 and a car, both merged.  *)
C12_Witness ==
    /\ evPc = Len(merge_cell) + 1
    /\ \E i, j \in DOMAIN events :
          /\ Original(i) = 2 /\ events[i][3] = 1
          /\ Original(j) = 41 /\ events[j][3] = 2

(***************************************************************************)
(* Epochs and averages.                                                    *)
(***************************************************************************)
(* The statement that was executed last.                                   *)
LastOp == IF dPc > 1 THEN EpochOps(dChapter)[dPc - 1].op ELSE "none"

(* The statements executed so far.                                         *)
DoneOps == {EpochOps(dChapter)[k].op : k \in 1..(dPc - 1)}

(* No two samples of a course are more than T apart.                       *)
Within(course, T) ==
    \A s, t \in DOMAIN course : QLe(QSub(course[s], course[t]), Q(T, 1))

(* Every EEG channel of the epoch stays within T.                          *)
Quiet(e, T) == \A c \in DOMAIN e.data : ch_types[c] = "eeg" => Within(e.data[c], T)

Eeg(e, c) == dTrials[e.idx].data[c]

BaselineSamples == {i \in DOMAIN times : -200 <= times[i] /\ times[i] <= 0}

RECURSIVE SumOver(_, _)
SumOver(course, ix) ==
    IF ix = {} THEN Q(0, 1)
    ELSE LET i == CHOOSE i \in ix : TRUE
         IN  QAdd(course[i], SumOver(course, ix \ {i}))

(* C14: after apply_baseline((-0.2, 0.0)) the samples of the baseline      *)
(* interval of every epoch and channel sum to zero, every sample is its    *)
(* previous value minus the previous mean of the interval, and the number  *)
(* of epochs, channels and samples is as before.                           *)
C14_Baseline ==
    LastOp = "apply_baseline" =>
       /\ Len(epochs) = Len(dPrev)
       /\ \A k \in DOMAIN epochs :
             /\ DOMAIN epochs[k].data = DOMAIN dPrev[k].data
             /\ \A c \in DOMAIN epochs[k].data :
                   /\ Len(epochs[k].data[c]) = Len(dPrev[k].data[c])
                   /\ SumOver(epochs[k].data[c], BaselineSamples) = Q(0, 1)
                   /\ \A t \in DOMAIN times :
                         QMul(Q(Cardinality(BaselineSamples), 1),
                              QSub(dPrev[k].data[c][t], epochs[k].data[c][t]))
                            = SumOver(dPrev[k].data[c], BaselineSamples)

(* An epoch whose PO8 had a baseline mean of 7.5 microvolts.               *)
C14_Witness ==
    /\ LastOp = "apply_baseline"
    /\ \E k \in DOMAIN epochs :
          /\ dPrev[k].data["PO8"][1] = Q(5, 1)
          /\ epochs[k].data["PO8"][1] = Q(-5, 2)

(* The averages assigned so far, each with the epochs it was taken over.   *)
Averaged ==
    {x \in {[op |-> "average_all", evoked |-> evokeds, over |-> epochs],
            [op |-> "average_face", evoked |-> evokeds_face,
             over |-> SelectSeq(epochs, LAMBDA e : e.value = 1)],
            [op |-> "average_car", evoked |-> evokeds_car,
             over |-> SelectSeq(epochs, LAMBDA e : e.value = 2)]} :
       x.op \in DoneOps}

(* ev holds, for each channel of chans and each sample, the arithmetic     *)
(* mean over the epochs eps (for no epoch: NaN).                           *)
IsMeanOver(ev, eps, chans) ==
    /\ ev.nave = Q(Len(eps), 1)
    /\ DOMAIN ev.data = chans
    /\ \A c \in chans :
          /\ Len(ev.data[c]) = Len(times)
          /\ \A t \in DOMAIN times :
                IF eps = <<>> THEN ev.data[c][t] = NaN
                ELSE QMul(Q(Len(eps), 1), ev.data[c][t])
                        = SumOver([k \in DOMAIN eps |-> eps[k].data[c][t]], DOMAIN eps)

(* C15 as stated: the average has the channels and samples of each window  *)
(* and holds the mean over the retained windows of the selection.          *)
C15_AverageSameChannels ==
    \A x \in Averaged : IsMeanOver(x.evoked, x.over, Elems(ch_names))

(* C15: the average has the sample count of each window and the EEG        *)
(* channels of the windows, not their EOG channels; at every such channel  *)
(* and sample it holds the arithmetic mean over exactly the retained       *)
(* epochs of the selection (all, value 1 for 'face', value 2 for 'car').   *)
C15_AverageOfRetained ==
    \A x \in Averaged :
       IsMeanOver(x.evoked, x.over, {c \in Elems(ch_names) : ch_types[c] = "eeg"})

(* Two different epochs passed the rejection, a face and a car: the        *)
(* average of all is over both, the face average over one.                 *)
C15_Witness ==
    /\ {"average_all", "average_face", "drop_bad"} \subseteq DoneOps
    /\ evokeds.nave = Q(2, 1) /\ evokeds_face.nave = Q(1, 1)
    /\ epochs[1].data # epochs[2].data
    /\ evokeds.data # evokeds_face.data

(* C16: the difference wave holds, at every channel and sample, the face   *)
(* average minus the car average, and the two averages are still the means *)
(* of their epochs.                                                        *)
C16_FaceMinusCar ==
    "combine_diff" \in DoneOps =>
       /\ DOMAIN evokeds_diff.data = DOMAIN evokeds_face.data
       /\ \A c \in DOMAIN evokeds_diff.data : \A t \in DOMAIN times :
             evokeds_diff.data[c][t] = QSub(evokeds_face.data[c][t], evokeds_car.data[c][t])
       /\ IsMeanOver(evokeds_face, SelectSeq(epochs, LAMBDA e : e.value = 1), DataChannels)
       /\ IsMeanOver(evokeds_car, SelectSeq(epochs, LAMBDA e : e.value = 2), DataChannels)

(* A difference wave that is not zero: at the third sample of PO8 the face *)
(* average lies above the car average.                                     *)
C16_Witness ==
    /\ "combine_diff" \in DoneOps
    /\ evokeds_face.nave = Q(1, 1) /\ evokeds_car.nave = Q(1, 1)
    /\ QLe(evokeds_car.data["PO8"][3], evokeds_face.data["PO8"][3])
    /\ evokeds_car.data["PO8"][3] # evokeds_face.data["PO8"][3]
    /\ QLe(Q(1, 1), evokeds_diff.data["PO8"][3])

(***************************************************************************)
(* The grand averages.                                                     *)
(***************************************************************************)
(* g holds, at every channel and sample, the sum of the averages of the    *)
(* list evs divided by their number.                                       *)
IsMeanOfAverages(g, evs) ==
    /\ DOMAIN g.data = DataChannels
    /\ \A c \in DataChannels : \A t \in DOMAIN times :
          QMul(Q(Len(evs), 1), g.data[c][t])
             = SumOver([p \in DOMAIN evs |-> evs[p].data[c][t]], DOMAIN evs)

(* The face epochs of all participants in one list.                        *)
RECURSIVE Pooled(_, _)
Pooled(eps, cond) ==
    IF eps = <<>> THEN <<>> ELSE Select(eps[1], cond) \o Pooled(Tail(eps), cond)

(* C17: each grand average holds, at every channel and sample, the mean of *)
(* the N participant averages, every participant counting 1/N however many *)
(* epochs it retained; and each participant average is the mean of that    *)
(* participant's retained epochs of the condition.                         *)
C17_GrandAverage ==
    /\ gPc > Len(gTrials) + 1 =>
          /\ Len(gFace) = Len(gTrials) /\ Len(gCar) = Len(gTrials)
          /\ IsMeanOfAverages(grand_evoked_face, gFace)
          /\ IsMeanOfAverages(grand_evoked_car, gCar)
          /\ \A p \in DOMAIN gTrials :
                /\ IsMeanOver(gFace[p], SelectSeq(gEpochs[p], LAMBDA e : e.value = 1),
                              DataChannels)
                /\ IsMeanOver(gCar[p], SelectSeq(gEpochs[p], LAMBDA e : e.value = 2),
                              DataChannels)
    /\ gPc > Len(gTrials) + 2 => IsMeanOfAverages(grand_evoked_diff, gDiff)

(* Two participants with one and two retained face epochs: the grand       *)
(* average is not the average of the three pooled epochs.                  *)
C17_Witness ==
    /\ gPc > Len(gTrials) + 2
    /\ Len(gFace) = 2
    /\ gFace[1].nave = Q(1, 1) /\ gFace[2].nave = Q(2, 1)
    /\ grand_evoked_face.data # average(Pooled(gEpochs, "face")).data
    /\ grand_evoked_face.data["PO8"][3].d # 0

(***************************************************************************)
(* C18.  Channel set-up.  Once the statements of the channel set-up have   *)
(* completed, raw has the channels of the file without VEOG_lower,         *)
(* HEOG_right and HEOG_left and with VEOG and HEOG; VEOG and HEOG are of   *)
(* type 'eog' and every other channel, the anode FP1 among them, of type   *)
(* 'eeg': 30 EEG and 2 EOG channels for the file with 33 channels.  At no  *)
(* point is one of the three source channels gone without VEOG             *)
(* (FP1 - VEOG_lower) and HEOG (HEOG_right - HEOG_left) being there.       *)
(***************************************************************************)
OfKind(k) == {c \in DOMAIN session.raw.ch : session.raw.ch[c].kind = k}

Derived(ch_name, anode, cathode) ==
    /\ ch_name \in DOMAIN session.raw.ch
    /\ session.raw.ch[ch_name].anode = anode
    /\ session.raw.ch[ch_name].cathode = cathode

C18_ChannelSetUp ==
    LET sources == {"VEOG_lower", "HEOG_right", "HEOG_left"}
        now == DOMAIN session.raw.ch
    IN  /\ sPc > SetupEnd(sChapter) =>
            /\ now = (DOMAIN session.file \ sources) \cup {"VEOG", "HEOG"}
            /\ OfKind("eog") = {"VEOG", "HEOG"}
            /\ OfKind("eeg") = now \ {"VEOG", "HEOG"}
            /\ "FP1" \in OfKind("eeg")
            /\ Cardinality(DOMAIN session.file) = 33 =>
                  Cardinality(OfKind("eeg")) = 30 /\ Cardinality(OfKind("eog")) = 2
        /\ session.raw # NoRaw /\ ~(sources \subseteq now) =>
            /\ Derived("VEOG", "FP1", "VEOG_lower")
            /\ Derived("HEOG", "HEOG_right", "HEOG_left")

(* The channel-information cell of the preprocessing chapter has completed *)
(* on the file with 33 channels.                                           *)
C18_Witness ==
    /\ sChapter = "preprocessing"
    /\ sRuns = 1
    /\ sPc = SetupEnd(sChapter) + 1
    /\ Cardinality(DOMAIN session.file) = 33
    /\ Cardinality(DOMAIN session.raw.ch) = 32
    /\ "VEOG_lower" \notin DOMAIN session.raw.ch

(***************************************************************************)
(* C19.  The condensed cells and the step-by-step chapters.  As stated:    *)
(* a condensed cell leaves raw as the statements of the preprocessing      *)
(* chapter leave it, the same operations having been applied to the signal *)
(* in the same order with the same arguments (for the same ICA             *)
(* decomposition).                                                         *)
(***************************************************************************)
RECURSIVE RunAll(_, _, _)
RunAll(stmts, s, sol) ==
    IF stmts = <<>> THEN s ELSE RunAll(Tail(stmts), After(Head(stmts), s, sol), sol)

Passband(proc) ==
    LET ls == UNION {proc[i].l_freq : i \in DOMAIN proc}
        hs == UNION {proc[i].h_freq : i \in DOMAIN proc}
    IN  [l_freq |-> {x \in ls : \A y \in ls : y <= x},
         h_freq |-> {x \in hs : \A y \in hs : x <= y}]

RECURSIVE EpochsOf(_, _, _, _)
(* The epochs of chapter ch after its statements ops, from the events tr.  *)
EpochsOf(ops, ch, tr, eps) ==
    IF ops = <<>> THEN eps
    ELSE LET op == Head(ops).op
             next == CASE op = "Epochs" -> Epochs(tr, event_id, CtorBaseline(ch), None)
                       [] op = "Epochs_reject" ->
                            Epochs(tr, event_id, CtorBaseline(ch), RejectArg(ch))
                       [] op = "apply_baseline" -> apply_baseline(eps, baseline_arg)
                       [] op = "drop_bad" -> drop_bad(eps, RejectArg(ch))
                       [] OTHER -> eps
         IN  EpochsOf(Tail(ops), ch, tr, next)

(* From the same signal and events, the chapters that pass the baseline or *)
(* the rejection to Epochs retain the epochs that the epoching chapter     *)
(* retains by apply_baseline and drop_bad: those of the faces and cars     *)
(* whose EEG channels stay within 100 microvolts.                          *)
EpochsAgree ==
    \A tr \in UNION {[1..n -> Trials] : n \in 0..MaxTrials} :
        LET by(ch) == EpochsOf(EpochOps(ch), ch, tr, <<>>)
            kept == {i \in DOMAIN tr :
                        /\ tr[i].value \in {1, 2}
                        /\ \A c \in {"PO8", "FP1"} : \A t, u \in DOMAIN times :
                              QLe(QSub(tr[i].data[c][t], tr[i].data[c][u]), Q(100, 1))}
        IN  \A ch \in {"epoching", "averaging", "averaging_old"} :
                /\ by(ch) = by("epoching")
                /\ {by(ch)[k].idx : k \in DOMAIN by(ch)} = kept

C20_SecondExecutionFails ==
    [][(sChapter = "preprocessing" /\ sRuns' >= 2) =>
          /\ session' = session
          /\ DOMAIN session'.raw.ch =
                (DOMAIN session.file \ {"VEOG_lower", "HEOG_right", "HEOG_left"})
                \cup {"VEOG", "HEOG"}
          /\ \A c \in DOMAIN session'.raw.ch :
                session'.raw.ch[c].kind = IF c \in {"VEOG", "HEOG"} THEN "eog" ELSE "eeg"
          /\ sPc' = SetupStart(sChapter)
          /\ Program(sChapter)[sPc'].args = <<"FP1", "VEOG_lower", "VEOG">>
          /\ "VEOG_lower" \notin DOMAIN session'.raw.ch
          /\ sStatus' \in {"running", "error"}
          /\ sStatus' = "running" => Raises(Program(sChapter)[sPc'], session'.raw)
      ]_vars

(* The second execution of the cell has ended with the exception.          *)
C20_Witness ==
    /\ sChapter = "preprocessing"
    /\ sRuns = 2
    /\ sStatus = "error"
    /\ sPc = SetupStart(sChapter)
    /\ session.raw.proc # <<>>

=============================================================================
